---- MODULE Spec2Model ----
(***************************************************************************)
(* Model of the flecs rule solver (src/src/rule_solver.c): the variable    *)
(* analyzer and program emitter of ecs_rule_new, and the backtracking      *)
(* evaluation VM driven by ecs_rule_next, over small ECS worlds.           *)
(***************************************************************************)
EXTENDS Integers, Sequences, FiniteSets, TLC

(***************************************************************************)
(* Program constants                                                       *)
(***************************************************************************)
ECS_RULE_MAX_VARIABLE_COUNT == 256
RULE_PAIR_PREDICATE == 1
RULE_PAIR_OBJECT == 2
UINT8_MAX == 255
EcsRuleVarKindTable == 0
EcsRuleVarKindEntity == 1
EcsRuleVarKindUnknown == 2
DfsStorage == 16

\* Builtin ids of the world (private_api.h is not part of the sources).
ECS_TRAIT == 1
EcsWildcard == 8
EcsThis == 9

NULL == 0

\* The content of memory that malloc returned and nothing wrote yet.
Uninit == -1000

(***************************************************************************)
(* Bounds of the model                                                     *)
(***************************************************************************)
MaxTerms == 2
MaxFree == 2
\* The longest type given to find_next_match on its own.
MaxTypeLen == 3
\* The length of the chain of the transitive relation in WorldDeep: one
\* more than the frames of the stack of Dfs.
ChainLength == 17

(***************************************************************************)
(* Entity ids.  A 64-bit id is kept as its three fields: the role byte,    *)
(* the high 32 bits and the low 32 bits.                                   *)
(***************************************************************************)
Name == [Name |-> 1, Eats |-> 2, Knows |-> 3,
         Alice |-> 11, Bob |-> 12, Carol |-> 13, Apple |-> 14, Dave |-> 15,
         Pear |-> 16]

Plain(e) == [role |-> 0, hi |-> 0, lo |-> e]

\* ecs_trait(comp, trait) = ECS_TRAIT | ecs_entity_t_comb(comp, trait):
\* the component (object) in the low half, the trait (predicate) in the high.
ecs_trait(comp, trait) == [role |-> ECS_TRAIT, hi |-> trait, lo |-> comp]

ecs_entity_t_lo(id) == id.lo
ecs_entity_t_hi(id) == id.hi

\* Numeric order of two 64-bit ids.
IdLess(a, b) ==
    \/ a.role < b.role
    \/ a.role = b.role /\ a.hi < b.hi
    \/ a.role = b.role /\ a.hi = b.hi /\ a.lo < b.lo

RECURSIVE SortIds(_)
SortIds(S) ==
    IF S = {} THEN <<>>
    ELSE LET m == CHOOSE x \in S : \A y \in S \ {x} : IdLess(x, y)
         IN <<m>> \o SortIds(S \ {m})

Range(s) == {s[i] : i \in 1..Len(s)}

Min2(a, b) == IF a < b THEN a ELSE b

(***************************************************************************)
(* The world: tables (a sorted type and the rows' entities) and the        *)
(* transitive predicates.  A table is named by its index; NULL is 0.       *)
(***************************************************************************)
Table(ids, ents) == [type |-> SortIds(ids), entities |-> ents]

\* Alice Knows Bob, Bob Knows Carol, Dave Knows Alice, Alice and Bob Eat Apple,
\* Alice Eats Pear.
WorldChain ==
    [tables |-> <<
        Table({ecs_trait(Name.Apple, Name.Eats), ecs_trait(Name.Pear, Name.Eats),
               ecs_trait(Name.Bob, Name.Knows)},
              <<Name.Alice>>),
        Table({ecs_trait(Name.Apple, Name.Eats), ecs_trait(Name.Carol, Name.Knows)},
              <<Name.Bob>>),
        Table({Plain(Name.Name)}, <<EcsWildcard, Name.Carol, Name.Apple>>),
        Table({ecs_trait(Name.Alice, Name.Knows)}, <<Name.Dave>>),
        Table({ecs_trait(Name.Apple, Name.Eats)}, <<>>) >>,
     transitive |-> {Name.Knows}]

\* Alice Knows Bob, Bob Knows Alice (a cycle), Dave Knows Carol, Alice and
\* Bob Eat Apple.
WorldCycle ==
    [tables |-> <<
        Table({ecs_trait(Name.Apple, Name.Eats), ecs_trait(Name.Bob, Name.Knows)},
              <<Name.Alice>>),
        Table({ecs_trait(Name.Apple, Name.Eats), ecs_trait(Name.Alice, Name.Knows)},
              <<Name.Bob>>),
        Table({ecs_trait(Name.Carol, Name.Knows)}, <<Name.Dave>>) >>,
     transitive |-> {Name.Knows}]

\* A chain without a cycle: entity 20 + k Knows entity 21 + k, for k in
\* 1..ChainLength, one table for each.
Link(k) == 20 + k

WorldDeep ==
    [tables |-> [k \in 1..ChainLength |->
                    Table({ecs_trait(Link(k + 1), Name.Knows)}, <<Link(k)>>)],
     transitive |-> {Name.Knows}]

WorldList == <<WorldChain, WorldCycle, WorldDeep>>

ecs_has_entity_Transitive(w, pred) == pred \in w.transitive

ecs_table_count(w, t) == Len(w.tables[t].entities)

\* ecs_eis_get: the record (table, row) of an entity, row 0-based.
HasRecord(w, e) == \E t \in 1..Len(w.tables) : e \in Range(w.tables[t].entities)

table_from_entity(w, e) ==
    IF HasRecord(w, e)
    THEN CHOOSE t \in 1..Len(w.tables) : e \in Range(w.tables[t].entities)
    ELSE NULL

RowOf(w, e) ==
    LET t == table_from_entity(w, e)
    IN (CHOOSE i \in 1..Len(w.tables[t].entities) : w.tables[t].entities[i] = e) - 1

\* Whether a type element is registered under an index key: the id itself,
\* (P, *), (*, O), (*, *) for a pair, and * for a plain id.
KeyMatches(key, e) ==
    /\ key.role = e.role
    /\ IF e.role = ECS_TRAIT
       THEN /\ key.hi \in {e.hi, EcsWildcard}
            /\ key.lo \in {e.lo, EcsWildcard}
       ELSE key.hi = 0 /\ key.lo \in {e.lo, EcsWildcard}

FirstColumn(type, key) ==
    (CHOOSE i \in 1..Len(type) :
        /\ KeyMatches(key, type[i])
        /\ \A j \in 1..(i - 1) : ~KeyMatches(key, type[j])) - 1

RECURSIVE TableSetFrom(_, _, _)
TableSetFrom(w, key, t) ==
    IF t > Len(w.tables) THEN <<>>
    ELSE LET type == w.tables[t].type
             rest == TableSetFrom(w, key, t + 1)
         IN IF \E i \in 1..Len(type) : KeyMatches(key, type[i])
            THEN <<[table |-> t, column |-> FirstColumn(type, key)]>> \o rest
            ELSE rest

\* world->store.table_index[mask]: the records in table order; the empty
\* sequence stands for a missing set.
find_table_set(w, mask) == TableSetFrom(w, mask, 1)

ecs_sparse_count(set) == Len(set)

\* ecs_sparse_get(set, index): the record at a dense index, or NULL.
ecs_sparse_get(set, index) ==
    IF index >= 0 /\ index < Len(set) THEN set[index + 1]
    ELSE [table |-> NULL, column |-> 0]

\* ecs_sparse_get_sparse(set, table id): the record of a table, or NULL.
ecs_sparse_get_sparse(set, t) ==
    IF \E i \in 1..Len(set) : set[i].table = t
    THEN set[CHOOSE i \in 1..Len(set) : set[i].table = t]
    ELSE [table |-> NULL, column |-> 0]

(***************************************************************************)
(* The parsed signature: a column is a predicate identifier and one or two *)
(* arguments (subject, object).  An identifier with entity 0 is a named    *)
(* variable; the entity EcsThis is the variable ".".                       *)
(***************************************************************************)
Var(name) == [entity |-> 0, name |-> name]
Ent(e) == [entity |-> e, name |-> ""]
This == [entity |-> EcsThis, name |-> "."]

Term1(pred, subj) == [pred |-> pred, argv |-> <<subj>>]
Term2(pred, subj, obj) == [pred |-> pred, argv |-> <<subj, obj>>]

argc(column) == Len(column.argv)

IsVarId(sid) == sid.entity = 0 \/ sid.entity = EcsThis

(***************************************************************************)
(* Variables                                                               *)
(***************************************************************************)
NewRule(w, sig) ==
    [world |-> w, sig |-> sig, variables |-> <<>>, operations |-> <<>>,
     variable_count |-> 0, subject_variable_count |-> 0, register_count |-> 0,
     column_count |-> Len(sig), operation_count |-> 0,
     ub |-> FALSE, error |-> ""]

\* A pointer into the variable array is the 0-based position; -1 is NULL.
VarAt(rule, p) == rule.variables[p + 1]

create_variable(rule, kind, name) ==
    LET cur == (rule.variable_count + 1) % (UINT8_MAX + 1)
        var == [kind |-> kind, name |-> name, id |-> cur - 1, occurs |-> 0,
                depth |-> UINT8_MAX, marked |-> FALSE]
    IN IF rule.ub \/ cur = 0 \/ cur /= rule.variable_count + 1
       THEN \* uint8_t cur wrapped: the array is resized to cur elements and
            \* variables[cur - 1] is written outside or over it.
            [rule EXCEPT !.ub = TRUE, !.variable_count = @ + 1]
       ELSE [rule EXCEPT !.variables = Append(@, var),
                         !.variable_count = @ + 1,
                         !.register_count =
                            IF @ < rule.variable_count + 1 THEN @ + 1 ELSE @]

find_variable(rule, kind, name) ==
    LET hits == {i \in 1..Len(rule.variables) :
                    /\ rule.variables[i].name = name
                    /\ (kind = EcsRuleVarKindUnknown
                        \/ kind = rule.variables[i].kind)}
    IN IF hits = {} THEN -1
       ELSE (CHOOSE i \in hits : \A j \in hits : i <= j) - 1

ensure_variable(rule, kind, name) ==
    LET var == find_variable(rule, kind, name)
    IN IF var = -1
       THEN create_variable(rule, kind, name)
       ELSE IF VarAt(rule, var).kind = EcsRuleVarKindUnknown
            THEN [rule EXCEPT !.variables[var + 1].kind = kind]
            ELSE rule

column_id_to_var(rule, sid) ==
    IF sid.entity = 0 THEN find_variable(rule, EcsRuleVarKindUnknown, sid.name)
    ELSE IF sid.entity = EcsThis
         THEN find_variable(rule, EcsRuleVarKindUnknown, ".")
         ELSE -1

column_pred(rule, column) == column_id_to_var(rule, column.pred)
column_subj(rule, column) == column_id_to_var(rule, column.argv[1])
column_obj(rule, column) ==
    IF argc(column) > 1 THEN column_id_to_var(rule, column.argv[2]) ELSE -1

is_subject(rule, var) ==
    IF var = -1 THEN FALSE
    ELSE VarAt(rule, var).id < rule.subject_variable_count

(***************************************************************************)
(* Dependency depth of the subject variables.  Every operator threads the  *)
(* rule (whose variables carry depth and marked) and returns it with the   *)
(* function's uint8_t result.                                              *)
(***************************************************************************)
U8(n) == n % (UINT8_MAX + 1)

Ret(rule, ret) == [rule |-> rule, ret |-> ret]

RECURSIVE get_variable_depth(_, _, _, _)
RECURSIVE get_depth_from_var(_, _, _, _)
RECURSIVE get_depth_from_term(_, _, _, _, _, _)
RECURSIVE crawl_variable_from(_, _, _, _, _)
RECURSIVE depth_loop(_, _, _, _, _, _)
RECURSIVE crawl_loop(_, _, _, _, _)
RECURSIVE crawl_variable(_, _, _, _)

\* The call get_variable_depth(rule, other, root, recur + 1) of crawl_variable,
\* made when other is a variable, is not var and is not marked.
CrawlStep(rule, var, other, root, recur) ==
    IF other /= -1 /\ other /= var /\ ~VarAt(rule, other).marked
    THEN get_variable_depth(rule, other, root, recur + 1).rule
    ELSE rule

crawl_variable_from(rule, var, root, recur, i) ==
    LET column == rule.sig[i]
        pred == column_pred(rule, column)
        subj == column_subj(rule, column)
        obj == column_obj(rule, column)
    IN IF i > rule.column_count THEN rule
       ELSE IF var /= pred /\ var /= subj /\ var /= obj
       THEN crawl_variable_from(rule, var, root, recur, i + 1)
       ELSE crawl_variable_from(
                CrawlStep(
                    CrawlStep(CrawlStep(rule, var, pred, root, recur),
                              var, subj, root, recur),
                    var, obj, root, recur),
                var, root, recur, i + 1)

crawl_variable(rule, var, root, recur) ==
    crawl_variable_from(rule, var, root, recur, 1)

\* "result = depth + 1" of get_depth_from_var, UINT8_MAX passed through.
DepthPlusOne(d) ==
    IF d.ret = UINT8_MAX THEN d ELSE Ret(d.rule, U8(d.ret + 1))

get_depth_from_var(rule, var, root, recur) ==
    IF var = root \/ VarAt(rule, var).depth /= UINT8_MAX
    THEN Ret(rule, U8(VarAt(rule, var).depth + 1))
    ELSE IF VarAt(rule, var).marked
         THEN Ret(rule, 0)
         ELSE DepthPlusOne(get_variable_depth(rule, var, root, recur + 1))

\* The object half of get_depth_from_term, after the predicate gave dp.
depth_from_obj(dp, cur, obj, root, recur) ==
    LET Least(do) ==
            IF do.ret = UINT8_MAX THEN do
            ELSE Ret(do.rule, Min2(do.ret, Min2(dp.ret, UINT8_MAX)))
    IN IF dp.ret = UINT8_MAX THEN dp
       ELSE Least(IF obj /= -1 /\ cur /= obj
                  THEN get_depth_from_var(dp.rule, obj, root, recur)
                  ELSE Ret(dp.rule, UINT8_MAX + 1))

get_depth_from_term(rule, cur, pred, obj, root, recur) ==
    IF pred = -1 /\ obj = -1 THEN Ret(rule, 0)
    ELSE depth_from_obj(IF pred /= -1 /\ cur /= pred
                        THEN get_depth_from_var(rule, pred, root, recur)
                        ELSE Ret(rule, UINT8_MAX + 1),
                        cur, obj, root, recur)

\* First loop of get_variable_depth: the minimum depth over var's terms.
depth_loop(rule, var, root, recur, i, result) ==
    LET column == rule.sig[i]
        pred0 == column_pred(rule, column)
        subj == column_subj(rule, column)
        obj0 == column_obj(rule, column)
        pred == IF is_subject(rule, pred0) THEN pred0 ELSE -1
        obj == IF is_subject(rule, obj0) THEN obj0 ELSE -1
        Rest(d) == depth_loop(d.rule, var, root, recur, i + 1,
                              Min2(d.ret, result))
    IN IF i > rule.column_count THEN Ret(rule, result)
       ELSE IF subj /= var
       THEN depth_loop(rule, var, root, recur, i + 1, result)
       ELSE Rest(get_depth_from_term(rule, var, pred, obj, root, recur))

\* crawl_variable when other is a variable and is not var.
CrawlOther(rule, var, other, root, recur) ==
    IF other /= -1 /\ other /= var
    THEN crawl_variable(rule, other, root, recur)
    ELSE rule

\* Second loop of get_variable_depth: follow predicate and object links.
crawl_loop(rule, var, root, recur, i) ==
    LET column == rule.sig[i]
        subj == column_subj(rule, column)
        pred == column_pred(rule, column)
        obj == column_obj(rule, column)
    IN IF i > rule.column_count THEN rule
       ELSE IF subj /= var
       THEN crawl_loop(rule, var, root, recur, i + 1)
       ELSE crawl_loop(
                CrawlOther(
                    CrawlOther(crawl_variable(rule, subj, root, recur),
                               var, pred, root, recur),
                    var, obj, root, recur),
                var, root, recur, i + 1)

\* get_variable_depth after the first loop returned d.
depth_assigned(d, var, root, recur) ==
    LET Crawled(r2) == Ret(r2, U8(VarAt(r2, var).depth))
    IN Crawled(crawl_loop(
            [d.rule EXCEPT !.variables[var + 1].depth =
                                IF d.ret = UINT8_MAX THEN 0 ELSE d.ret],
            var, root, recur, 1))

get_variable_depth(rule, var, root, recur) ==
    depth_assigned(
        depth_loop([rule EXCEPT !.variables[var + 1].marked = TRUE],
                   var, root, recur, 1, UINT8_MAX),
        var, root, recur)

(***************************************************************************)
(* compare_variable and the outcomes of qsort with it                      *)
(***************************************************************************)
compare_variable(v1, v2) ==
    IF v1.kind < v2.kind THEN -1
    ELSE IF v1.kind > v2.kind THEN 1
    ELSE IF v1.depth < v2.depth THEN -1
    ELSE IF v1.depth > v2.depth THEN 1
    ELSE IF v1.occurs < v2.occurs THEN 1
    ELSE -1

\* v1 is ordered after v2 by the comparator, whichever way it is asked.
OrderedAfter(v1, v2) ==
    compare_variable(v1, v2) = 1 /\ compare_variable(v2, v1) = -1

\* The orders qsort can leave: no element ahead of one it is ordered after;
\* elements the comparator does not order consistently land in any order.
RECURSIVE SortOutcomes(_)
SortOutcomes(S) ==
    IF S = {} THEN {<<>>}
    ELSE UNION {{<<m>> \o rest : rest \in SortOutcomes(S \ {m})} :
                m \in {x \in S : \A y \in S : ~OrderedAfter(x, y)}}

Renumber(vars) == [i \in 1..Len(vars) |-> [vars[i] EXCEPT !.id = i - 1]]

(***************************************************************************)
(* scan_variables                                                          *)
(***************************************************************************)
ensure_all_variables_column(rule, column) ==
    LET r1 == IF IsVarId(column.pred)
              THEN ensure_variable(rule, EcsRuleVarKindEntity, column.pred.name)
              ELSE rule
        r2 == IF column.argv[1].entity = 0
              THEN ensure_variable(r1, EcsRuleVarKindEntity, column.argv[1].name)
              ELSE r1
    IN IF argc(column) > 1 /\ IsVarId(column.argv[2])
       THEN ensure_variable(r2, EcsRuleVarKindEntity, column.argv[2].name)
       ELSE r2

RECURSIVE ensure_all_variables_from(_, _)
ensure_all_variables_from(rule, i) ==
    IF i > rule.column_count \/ rule.ub THEN rule
    ELSE ensure_all_variables_from(
            ensure_all_variables_column(rule, rule.sig[i]), i + 1)

ensure_all_variables(rule) == ensure_all_variables_from(rule, 1)

\* The subject of a term counted: occurs incremented, the variable with the
\* most occurrences remembered.
count_subject(st, r1, subj) ==
    LET occurs == VarAt(r1, subj).occurs + 1
        r2 == [r1 EXCEPT !.variables[subj + 1].occurs = occurs]
    IN IF occurs > st.max_occur
       THEN [st EXCEPT !.rule = r2,
                       !.max_occur = U8(occurs),
                       !.max_occur_var = U8(VarAt(r1, subj).id)]
       ELSE [st EXCEPT !.rule = r2]

\* The body of the first loop for a term whose subject is a variable; found
\* is the Table variable of that name, r1 the rule with it created if new.
find_root_subject(st, found, r1) ==
    IF r1.ub THEN [st EXCEPT !.rule = r1]
    ELSE IF found = -1 /\ st.subject_count >= ECS_RULE_MAX_VARIABLE_COUNT
    THEN [st EXCEPT !.rule = [r1 EXCEPT !.error = "too many variables in rule"]]
    ELSE count_subject(st, r1,
                       IF found = -1 THEN r1.variable_count - 1 ELSE found)

find_root_term(st, column) ==
    LET subj_name == column.argv[1].name
        found == find_variable(st.rule, EcsRuleVarKindTable, subj_name)
    IN IF ~IsVarId(column.argv[1]) THEN st
       ELSE find_root_subject(st, found,
                IF found = -1
                THEN create_variable(st.rule, EcsRuleVarKindTable, subj_name)
                ELSE st.rule)

\* The locals of scan_variables as they are declared: no subject counted, no
\* occurrence seen; this_var starts at UINT8_MAX.
ThisVarInit == UINT8_MAX

ScanInit(rule) ==
    [rule |-> rule, subject_count |-> 0, max_occur |-> 0,
     max_occur_var |-> UINT8_MAX]

\* Step 1 of scan_variables: the scan state is the rule and the locals
\* subject_count, max_occur, max_occur_var.  The loop over the columns lo to
\* hi is evaluated in halves; "goto error" leaves the state as it is.
RECURSIVE find_roots_between(_, _, _)
find_roots_between(st, lo, hi) ==
    IF st.rule.ub \/ st.rule.error /= "" \/ lo > hi THEN st
    ELSE IF lo = hi THEN find_root_term(st, st.rule.sig[lo])
    ELSE find_roots_between(find_roots_between(st, lo, (lo + hi) \div 2),
                            (lo + hi) \div 2 + 1, hi)

find_roots(st) == find_roots_between(st, 1, st.rule.column_count)

\* Step 2: this_var keeps its initial value, so the election falls through to
\* the variable with the most occurrences.
elect_root(this_var, max_occur_var) ==
    IF this_var = UINT8_MAX THEN max_occur_var ELSE this_var

\* The unconstrained check with a loop that stops one variable early.
Unconstrained_but_last(rule) ==
    {i \in 0..(rule.subject_variable_count - 2) :
        VarAt(rule, i).depth = UINT8_MAX}

Unconstrained(rule) ==
    {i \in 0..(rule.subject_variable_count - 1) :
        VarAt(rule, i).depth = UINT8_MAX}

\* Steps 3 to 5: the unconstrained check and the sort, on the rule with the
\* depth of the root stored.
scan_sorted(r3) ==
    IF Unconstrained(r3) /= {}
    THEN {[r3 EXCEPT !.error = "unconstrained variable"]}
    ELSE {[r3 EXCEPT !.variables = Renumber(vars)] :
            vars \in SortOutcomes(Range(r3.variables))}

scan_root_depth(d, root_var) ==
    scan_sorted([d.rule EXCEPT !.variables[root_var + 1].depth = d.ret])

\* scan_variables once every variable exists.
scan_depths(r2, root_var) ==
    IF r2.ub THEN {r2}
    ELSE IF root_var = UINT8_MAX THEN {r2}
    ELSE scan_root_depth(get_variable_depth(r2, root_var, root_var, 0),
                         root_var)

\* scan_variables after the first loop.
scan_roots(st, this_var) ==
    IF st.rule.ub \/ st.rule.error /= "" THEN {st.rule}
    ELSE scan_depths(
            ensure_all_variables(
                [st.rule EXCEPT !.subject_variable_count =
                                    st.rule.variable_count]),
            elect_root(this_var, st.max_occur_var))

\* The rules scan_variables can leave (one per order the sort can produce);
\* error is set when it returns -1.
scan_variables(rule) == scan_roots(find_roots(ScanInit(rule)), ThisVarInit)

\* The name of the variable that Step 2 elects for the scan state st that
\* Step 1 left ("" when there is none).
root_name(st, root_var) ==
    IF root_var = UINT8_MAX THEN "" ELSE VarAt(st.rule, root_var).name

elected_root(st) == root_name(st, elect_root(ThisVarInit, st.max_occur_var))

(***************************************************************************)
(* Program emitter                                                         *)
(***************************************************************************)
NoPair == [pred |-> 0, obj |-> 0, reg_mask |-> {}, transitive |-> FALSE]

\* create_operation: a zeroed operation appended to the program.
ZeroOp ==
    [kind |-> "Input", param |-> NoPair, subject |-> 0, on_ok |-> 0,
     on_fail |-> 0, column |-> 0, r_in |-> 0, r_out |-> 0,
     has_in |-> FALSE, has_out |-> FALSE]

create_operation(rule) ==
    [rule EXCEPT !.operations = Append(@, ZeroOp), !.operation_count = @ + 1]

\* The operation create_operation or insert_operation returned last.
LastOp(rule) == rule.operation_count

column_to_pair(rule, column) ==
    LET pred_id == column.pred.entity
        pvar == find_variable(rule, EcsRuleVarKindEntity, column.pred.name)
        p1 == IF pred_id = 0 \/ pred_id = EcsThis
              THEN [NoPair EXCEPT !.pred = VarAt(rule, pvar).id,
                                  !.reg_mask = {RULE_PAIR_PREDICATE}]
              ELSE [NoPair EXCEPT !.pred = pred_id,
                                  !.transitive =
                                      /\ ecs_has_entity_Transitive(
                                            WorldList[rule.world], pred_id)
                                      /\ argc(column) = 2]
    IN IF argc(column) = 1 THEN p1
       ELSE LET obj_id == column.argv[2].entity
                ovar == find_variable(rule, EcsRuleVarKindEntity,
                                      column.argv[2].name)
            IN IF obj_id = 0 \/ obj_id = EcsThis
               THEN [p1 EXCEPT !.obj = VarAt(rule, ovar).id,
                               !.reg_mask = @ \cup {RULE_PAIR_OBJECT}]
               ELSE [p1 EXCEPT !.obj = obj_id]

\* insert_operation with on_ok left at the operation itself.
insert_operation_on_ok_self(rule, column_index) ==
    LET r == create_operation(rule)
        k == LastOp(r)
    IN [r EXCEPT !.operations[k].on_ok = r.operation_count - 1,
                 !.operations[k].on_fail = r.operation_count - 2,
                 !.operations[k].param =
                    IF column_index /= -1
                    THEN column_to_pair(rule, rule.sig[column_index + 1])
                    ELSE NoPair,
                 !.operations[k].column = column_index]

insert_operation(rule, column_index) ==
    LET r == create_operation(rule)
        k == LastOp(r)
    IN [r EXCEPT !.operations[k].on_ok = r.operation_count,
                 !.operations[k].on_fail = r.operation_count - 2,
                 !.operations[k].param =
                    IF column_index /= -1
                    THEN column_to_pair(rule, rule.sig[column_index + 1])
                    ELSE NoPair,
                 !.operations[k].column = column_index]

\* The fields an emitter sets on the operation it just inserted.
SetEach(r, r_in, r_out) ==
    [r EXCEPT !.operations[LastOp(r)].kind = "Each",
              !.operations[LastOp(r)].has_in = TRUE,
              !.operations[LastOp(r)].has_out = TRUE,
              !.operations[LastOp(r)].r_in = r_in,
              !.operations[LastOp(r)].r_out = r_out]

SetWith(r, r_in, subject) ==
    [r EXCEPT !.operations[LastOp(r)].kind = "With",
              !.operations[LastOp(r)].has_in = TRUE,
              !.operations[LastOp(r)].r_in = r_in,
              !.operations[LastOp(r)].subject = subject]

\* A Select whatever the pair is.
SetOut_select(r, r_out) ==
    [r EXCEPT !.operations[LastOp(r)].kind = "Select",
              !.operations[LastOp(r)].has_out = TRUE,
              !.operations[LastOp(r)].r_out = r_out]

SetOut(r, r_out) ==
    [r EXCEPT !.operations[LastOp(r)].kind =
                    IF r.operations[LastOp(r)].param.transitive
                    THEN "Dfs" ELSE "Select",
              !.operations[LastOp(r)].has_out = TRUE,
              !.operations[LastOp(r)].r_out = r_out]

\* The emitter state is the rule and the set of written variable ids.
write_variable(st, var, column) ==
    LET rule == st.rule
        name == VarAt(rule, var).name
        tvar == find_variable(rule, EcsRuleVarKindTable, name)
        evar == find_variable(rule, EcsRuleVarKindEntity, name)
        each == tvar /= -1 /\ VarAt(rule, tvar).id \in st.written
                /\ evar /= -1 /\ VarAt(rule, evar).id \notin st.written
    IN [rule |-> IF each
                 THEN SetEach(insert_operation(rule, column),
                              VarAt(rule, tvar).id, VarAt(rule, evar).id)
                 ELSE rule,
        written |-> st.written \cup {VarAt(rule, evar).id}]

\* write_variable for the predicate and then the object of a column.
write_pred_obj(st, c) ==
    LET column == st.rule.sig[c + 1]
        pred == column_pred(st.rule, column)
        obj == column_obj(st.rule, column)
        WriteObj(s1) == IF obj /= -1 THEN write_variable(s1, obj, c) ELSE s1
    IN WriteObj(IF pred /= -1 THEN write_variable(st, pred, c) ELSE st)

\* First loop of ecs_rule_new: a With for every term with a literal subject.
RECURSIVE emit_literals(_, _)
emit_literals(st, c) ==
    LET column == st.rule.sig[c + 1]
        With(s1) ==
            [s1 EXCEPT !.rule = SetWith(insert_operation(s1.rule, c),
                                        UINT8_MAX, column.argv[1].entity)]
    IN IF c >= st.rule.column_count THEN st
       ELSE IF column_subj(st.rule, column) /= -1
       THEN emit_literals(st, c + 1)
       ELSE emit_literals(With(write_pred_obj(st, c)), c + 1)

\* A With on the Table variable for every term of a subject, written or
\* not.
emit_subject_term_with(st, v, c) ==
    LET With(s1) ==
            [s1 EXCEPT !.rule = SetWith(insert_operation(s1.rule, c),
                                        VarAt(st.rule, v).id, 0)]
    IN With(write_pred_obj(st, c))

\* The operation emitted for a term whose subject is the variable v.
emit_subject_term(st, v, c) ==
    LET var == VarAt(st.rule, v)
        table_written == var.id \in st.written
        entity_var == find_variable(st.rule, EcsRuleVarKindEntity, var.name)
        entity_written == entity_var /= -1
                          /\ VarAt(st.rule, entity_var).id \in st.written
        Emit(s1) ==
            IF entity_written
            THEN [s1 EXCEPT !.rule =
                    SetWith(insert_operation(s1.rule, c),
                            VarAt(st.rule, entity_var).id, 0)]
            ELSE IF table_written
            THEN [s1 EXCEPT !.rule =
                    SetWith(insert_operation(s1.rule, c), var.id, 0)]
            ELSE [rule |-> SetOut(insert_operation(s1.rule, c), var.id),
                  written |-> s1.written \cup {var.id}]
    IN Emit(write_pred_obj(st, c))

\* Second loop of ecs_rule_new: the subject variables in sorted order, and
\* for each the terms it is the subject of.
RECURSIVE emit_subjects(_, _, _)
emit_subjects(st, v, c) ==
    IF v >= st.rule.subject_variable_count THEN st
    ELSE IF c >= st.rule.column_count THEN emit_subjects(st, v + 1, 0)
    ELSE IF column_subj(st.rule, st.rule.sig[c + 1]) /= v
         THEN emit_subjects(st, v, c + 1)
         ELSE emit_subjects(emit_subject_term(st, v, c), v, c + 1)

\* The assertions of the verification loop: a subject variable that is not
\* written has a written Entity variable.
SubjectsWritten(st) ==
    \A v \in 0..(st.rule.subject_variable_count - 1) :
        v \in st.written
        \/ LET var == find_variable(st.rule, EcsRuleVarKindEntity,
                                    VarAt(st.rule, v).name)
           IN var /= -1 /\ VarAt(st.rule, var).id \in st.written

\* The last loop left out: no Each for the variables still unwritten.
emit_unwritten_none(st, v) == st

\* Last loop of ecs_rule_new: an Each for every variable still unwritten.
RECURSIVE emit_unwritten(_, _)
emit_unwritten(st, v) ==
    LET var == VarAt(st.rule, v)
        table_var == find_variable(st.rule, EcsRuleVarKindTable, var.name)
    IN IF v >= st.rule.variable_count THEN st
       ELSE IF v \in st.written THEN emit_unwritten(st, v + 1)
       ELSE emit_unwritten(
                [rule |-> SetEach(insert_operation(st.rule, -1),
                                  IF table_var = -1 THEN UINT8_MAX
                                  ELSE VarAt(st.rule, table_var).id,
                                  var.id),
                 written |-> st.written \cup {var.id}],
                v + 1)

\* The Yield with on_fail left at the Yield itself.
emit_yield_fail_self(rule) ==
    LET r1 == create_operation(rule)
        k == LastOp(r1)
        evar == find_variable(rule, EcsRuleVarKindEntity, ".")
        tvar == find_variable(rule, EcsRuleVarKindTable, ".")
        var == IF evar /= -1 THEN evar ELSE tvar
    IN [r1 EXCEPT !.operations[k].kind = "Yield",
                  !.operations[k].has_in = TRUE,
                  !.operations[k].on_fail = r1.operation_count - 1,
                  !.operations[k].r_in =
                        IF var = -1 THEN UINT8_MAX ELSE VarAt(rule, var).id]

emit_yield(rule) ==
    LET r1 == create_operation(rule)
        k == LastOp(r1)
        evar == find_variable(rule, EcsRuleVarKindEntity, ".")
        tvar == find_variable(rule, EcsRuleVarKindTable, ".")
        var == IF evar /= -1 THEN evar ELSE tvar
    IN [r1 EXCEPT !.operations[k].kind = "Yield",
                  !.operations[k].has_in = TRUE,
                  !.operations[k].on_fail = r1.operation_count - 2,
                  !.operations[k].r_in =
                        IF var = -1 THEN UINT8_MAX ELSE VarAt(rule, var).id]

emit_input(rule) ==
    LET r1 == create_operation(rule)
    IN [r1 EXCEPT !.operations[1].kind = "Input",
                  !.operations[1].on_ok = 1,
                  !.operations[1].on_fail = -1]

emit_program(scanned) ==
    emit_yield(
        emit_unwritten(
            emit_subjects(
                emit_literals([rule |-> scanned, written |-> {}], 0), 0, 0),
            scanned.subject_variable_count).rule)

\* ecs_rule_new: the results it can produce for a signature.  "rule" is a
\* compiled rule, "error" is NULL after a reported error, "undefined" is the
\* outcome of a write outside the variable array.
ecs_rule_new(w, sig) ==
    {IF r.ub THEN [status |-> "undefined", rule |-> r]
     ELSE IF r.error /= "" THEN [status |-> "error", rule |-> r]
     ELSE [status |-> "rule", rule |-> emit_program(r)] :
        r \in scan_variables(emit_input(NewRule(w, sig)))}

(***************************************************************************)
(* Pair encoding and filter layer                                          *)
(***************************************************************************)
\* A register cell: an entity id, a table, or memory never written.
RegEntity(e) == <<"e", e>>
RegTable(t) == <<"t", t>>
RegUninit == <<"u", 0>>

get_registers(it, op) == it.registers[op + 1]
get_columns(it, op) == it.columns[op + 1]

\* x & m for a 32-bit half, m being 0 or 0xFFFFFFFF (kept as -1).
And32(x, m) == IF m = 0 THEN 0 ELSE x
\* x & m for the role byte of the ids of the world (no role, or ECS_TRAIT).
AndRole(x, m) == IF x = m THEN x ELSE 0

IdAnd(id, m) ==
    [role |-> AndRole(id.role, m.role), hi |-> And32(id.hi, m.hi),
     lo |-> And32(id.lo, m.lo)]

ZeroId == [role |-> 0, hi |-> 0, lo |-> 0]
UninitId == [role |-> Uninit, hi |-> Uninit, lo |-> Uninit]

set_filter_expr_mask(result, mask) ==
    LET lo == ecs_entity_t_lo(mask)
        hi == ecs_entity_t_hi(mask)
    IN [result EXCEPT
            !.expr_mask = [role |-> mask.role,
                           hi |-> IF hi /= EcsWildcard THEN -1 ELSE 0,
                           lo |-> IF lo /= EcsWildcard THEN -1 ELSE 0],
            !.expr_match = [role |-> mask.role,
                            hi |-> IF hi /= EcsWildcard THEN hi ELSE 0,
                            lo |-> IF lo /= EcsWildcard THEN lo ELSE 0]]

\* regs[v].is.entity
RegAsEntity(regs, v) == regs[v + 1][2]

pair_to_filter(it, op_index, pair) ==
    LET regs == get_registers(it, op_index - 1)
        obj_is_var == RULE_PAIR_OBJECT \in pair.reg_mask
        pred_is_var == RULE_PAIR_PREDICATE \in pair.reg_mask
        obj == IF obj_is_var THEN RegAsEntity(regs, pair.obj) ELSE pair.obj
        pred == IF pred_is_var THEN RegAsEntity(regs, pair.pred) ELSE pair.pred
        obj_wildcard == obj_is_var /\ obj = EcsWildcard
        pred_wildcard == pred_is_var /\ pred = EcsWildcard
        result ==
            [mask |-> IF obj = 0 THEN Plain(pred) ELSE ecs_trait(obj, pred),
             expr_mask |-> ZeroId, expr_match |-> ZeroId,
             wildcard |-> obj_wildcard \/ pred_wildcard,
             pred_wildcard |-> pred_wildcard,
             obj_wildcard |-> obj_wildcard,
             same_var |-> pred_wildcard /\ obj_wildcard /\ pair.pred = pair.obj,
             hi_var |-> IF pred_wildcard /\ obj /= 0 THEN pair.pred ELSE -1,
             lo_var |-> IF pred_wildcard /\ obj = 0 THEN pair.pred
                        ELSE IF obj_wildcard THEN pair.obj ELSE -1]
    IN IF result.wildcard THEN set_filter_expr_mask(result, result.mask)
       ELSE result

RECURSIVE find_next_match_from(_, _, _, _)
find_next_match_from(type, i, count, filter) ==
    IF i >= count THEN -1
    ELSE IF /\ IdAnd(type[i + 1], filter.expr_mask) = filter.expr_match
            /\ (filter.same_var =>
                    ecs_entity_t_lo(type[i + 1]) = ecs_entity_t_hi(type[i + 1]))
         THEN i
         ELSE find_next_match_from(type, i + 1, count, filter)

\* find_next_match without the narrowing to one element.
find_next_match_whole(type, column, filter) ==
    find_next_match_from(type, column, Len(type), filter)

find_next_match(type, column, filter) ==
    LET count == IF ~filter.pred_wildcard /\ column /= 0 /\ column < Len(type)
                 THEN column + 1 ELSE Len(type)
    IN find_next_match_from(type, column, count, filter)

\* reify_variables writing the halves of the matched element to the
\* registers of the previous frame, from which the filter was built.
reify_variables_previous_frame(it, op_index, filter, type, column) ==
    LET elem == type[column + 1]
        regs == get_registers(it, op_index - 1)
        r1 == IF filter.lo_var /= -1
              THEN [regs EXCEPT ![filter.lo_var + 1] =
                        RegEntity(ecs_entity_t_lo(elem))]
              ELSE regs
        r2 == IF filter.hi_var /= -1
              THEN [r1 EXCEPT ![filter.hi_var + 1] =
                        RegEntity(ecs_entity_t_hi(elem))]
              ELSE r1
    IN [it EXCEPT !.registers[op_index] = r2]

\* reify_variables: the registers of the current frame with the halves of
\* the matched element written to lo_var and hi_var.
reify_variables(it, op_index, filter, type, column) ==
    LET elem == type[column + 1]
        regs == get_registers(it, op_index)
        r1 == IF filter.lo_var /= -1
              THEN [regs EXCEPT ![filter.lo_var + 1] =
                        RegEntity(ecs_entity_t_lo(elem))]
              ELSE regs
        r2 == IF filter.hi_var /= -1
              THEN [r1 EXCEPT ![filter.hi_var + 1] =
                        RegEntity(ecs_entity_t_hi(elem))]
              ELSE r1
    IN [it EXCEPT !.registers[op_index + 1] = r2]

(***************************************************************************)
(* The iterator                                                            *)
(***************************************************************************)
NoCtx ==
    [table_set |-> <<>>, table_index |-> -1, all_for_pred |-> <<>>,
     row |-> 0, stack |-> <<>>, sp |-> 0]

\* ecs_rule_iter without the loop that stores EcsWildcard: every register
\* is left as ecs_os_malloc returned it.
ecs_rule_iter_unset(rule) ==
    [op |-> 0, redo |-> FALSE,
     registers |-> [k \in 1..rule.operation_count |->
                        [v \in 1..rule.variable_count |-> RegUninit]],
     columns |-> [k \in 1..rule.operation_count |->
                        [c \in 1..rule.column_count |-> Uninit]],
     op_ctx |-> [k \in 1..rule.operation_count |-> NoCtx],
     components |-> [c \in 1..rule.column_count |-> UninitId],
     count |-> 0, offset |-> 0, table |-> NULL,
     freed |-> [registers |-> 0, columns |-> 0, op_ctx |-> 0, components |-> 0],
     nulled |-> {}]

ecs_rule_iter(rule) ==
    [op |-> 0, redo |-> FALSE,
     registers |-> [k \in 1..rule.operation_count |->
                        [v \in 1..rule.variable_count |->
                            IF k = 1 THEN RegEntity(EcsWildcard) ELSE RegUninit]],
     columns |-> [k \in 1..rule.operation_count |->
                        [c \in 1..rule.column_count |-> Uninit]],
     op_ctx |-> [k \in 1..rule.operation_count |-> NoCtx],
     components |-> [c \in 1..rule.column_count |-> UninitId],
     count |-> 0, offset |-> 0, table |-> NULL,
     \* how often each allocation was handed to ecs_os_free while set
     freed |-> [registers |-> 0, columns |-> 0, op_ctx |-> 0, components |-> 0],
     \* the pointers that ecs_rule_iter_free has set to NULL
     nulled |-> {}]

\* ecs_os_free(ptr) of an allocation: nothing for a NULL pointer.
os_free(it, what, allocated) ==
    IF allocated /\ what \notin it.nulled
    THEN [it EXCEPT !.freed[what] = @ + 1]
    ELSE it

ecs_rule_iter_free(it, rule) ==
    LET i1 == os_free(it, "registers", rule.variable_count > 0)
        i2 == os_free(i1, "columns", rule.column_count > 0)
        i3 == os_free(i2, "op_ctx", TRUE)
        i4 == os_free(i3, "components", rule.column_count > 0)
    IN [i4 EXCEPT !.nulled = {"registers", "columns", "op_ctx"}]

\* The outcome of evaluating one operation: the iterator, the result, and
\* whether an ecs_assert failed, the behaviour became undefined, or the
\* recursion never returns.
Out(it, result) ==
    [it |-> it, result |-> result, asserted |-> FALSE, ub |-> FALSE,
     hang |-> FALSE]

eval_input(it, redo) == Out(it, ~redo)

\* The loop of find_next_table without the test of ecs_table_count: a
\* table without rows is returned like any other.
find_next_table_loop_any(w, table_set, filter, table_index) ==
    LET RECURSIVE Loop(_)
        Loop(idx) ==
            LET i == idx + 1
                rec == ecs_sparse_get(table_set, i)
                column == find_next_match(w.tables[rec.table].type,
                                          rec.column, filter)
            IN IF rec.table = NULL
               THEN [table |-> NULL, column |-> 0, table_index |-> i]
               ELSE IF column = -1
                    THEN Loop(i)
                    ELSE [table |-> rec.table, column |-> column,
                          table_index |-> i]
    IN Loop(table_index)

find_next_table_loop(w, table_set, filter, table_index) ==
    LET RECURSIVE Loop(_)
        Loop(idx) ==
            LET i == idx + 1
                rec == ecs_sparse_get(table_set, i)
                column == find_next_match(w.tables[rec.table].type,
                                          rec.column, filter)
            IN IF rec.table = NULL
               THEN [table |-> NULL, column |-> 0, table_index |-> i]
               ELSE IF ecs_table_count(w, rec.table) = 0 \/ column = -1
                    THEN Loop(i)
                    ELSE [table |-> rec.table, column |-> column,
                          table_index |-> i]
    IN Loop(table_index)

\* find_next_table: the record found and the advanced op_ctx->table_index.
find_next_table(w, table_set, filter, table_index) ==
    IF table_index >= ecs_sparse_count(table_set)
    THEN [table |-> NULL, column |-> 0, table_index |-> table_index]
    ELSE find_next_table_loop(w, table_set, filter, table_index)

\* table_from_reg: the table, and whether the register was read as a table
\* without holding one.
table_from_reg(rule, w, op, regs, r) ==
    IF r = UINT8_MAX
    THEN [table |-> table_from_entity(w, op.subject), ub |-> FALSE]
    ELSE IF VarAt(rule, r).kind = EcsRuleVarKindTable
    THEN [table |-> regs[r + 1][2], ub |-> regs[r + 1][1] /= "t"]
    ELSE [table |-> table_from_entity(w, regs[r + 1][2]),
          ub |-> regs[r + 1][1] /= "e"]

set_column(it, op, type, column) ==
    [it EXCEPT !.components[op.column + 1] = type[column + 1]]

SetReg(it, op_index, r, val) ==
    [it EXCEPT !.registers[op_index + 1][r + 1] = val]

SetCol(it, op_index, op, column) ==
    [it EXCEPT !.columns[op_index + 1][op.column + 1] = column]

(***************************************************************************)
(* Select, With, Each, Yield                                               *)
(***************************************************************************)
\* The end of eval_select and eval_with: the variables reified, the
\* matched id stored.
match_found(it, op, op_index, filter, type, column) ==
    set_column(IF filter.wildcard
               THEN reify_variables(it, op_index, filter, type, column)
               ELSE it,
               op, type, column)

\* The table record stored by eval_select while the table index that
\* find_next_table advanced is not kept.
select_table_index_unsaved(it, w, op, op_index, filter, rec) ==
    IF rec.table = NULL THEN Out(it, FALSE)
    ELSE Out(match_found(
                [it EXCEPT !.columns[op_index + 1][op.column + 1] = rec.column,
                           !.registers[op_index + 1][op.r_out + 1] =
                                RegTable(rec.table)],
                op, op_index, filter, w.tables[rec.table].type, rec.column),
             TRUE)

\* The table record that find_next_table returned, stored by eval_select.
select_table(it, w, op, op_index, filter, rec) ==
    IF rec.table = NULL
    THEN Out([it EXCEPT !.op_ctx[op_index + 1].table_index = rec.table_index],
             FALSE)
    ELSE Out(match_found(
                [it EXCEPT !.op_ctx[op_index + 1].table_index = rec.table_index,
                           !.columns[op_index + 1][op.column + 1] = rec.column,
                           !.registers[op_index + 1][op.r_out + 1] =
                                RegTable(rec.table)],
                op, op_index, filter, w.tables[rec.table].type, rec.column),
             TRUE)

\* eval_select on a redo that leaves the current table for the next one of
\* the set without trying the remaining columns of its type.
select_redo_next_table(it, w, op, op_index, filter, table_set, table, column) ==
    select_table(SetCol(it, op_index, op, -1), w, op, op_index, filter,
        find_next_table(w, table_set, filter,
                        it.op_ctx[op_index + 1].table_index))

\* eval_select on a redo with a wildcard filter, after the next match in the
\* current table was looked for.
select_redo(it, w, op, op_index, filter, table_set, table, column) ==
    IF column = -1
    THEN select_table(SetCol(it, op_index, op, column), w, op, op_index,
            filter,
            find_next_table(w, table_set, filter,
                            it.op_ctx[op_index + 1].table_index))
    ELSE Out(match_found(SetCol(it, op_index, op, column), op, op_index,
                         filter, w.tables[table].type, column), TRUE)

eval_select_set(it, w, op, op_index, redo, filter, table_set) ==
    LET reg == get_registers(it, op_index)[op.r_out + 1]
        it1 == [it EXCEPT !.op_ctx[op_index + 1].table_set = table_set]
    IN IF table_set = <<>> THEN Out(it1, FALSE)
       ELSE IF ~redo
       THEN select_table(it1, w, op, op_index, filter,
                         find_next_table(w, table_set, filter, -1))
       ELSE IF ~filter.wildcard
       THEN select_table(it1, w, op, op_index, filter,
                find_next_table(w, table_set, filter,
                                it.op_ctx[op_index + 1].table_index))
       ELSE IF reg[1] /= "t" THEN [Out(it1, FALSE) EXCEPT !.ub = TRUE]
       ELSE select_redo(it1, w, op, op_index, filter, table_set, reg[2],
                find_next_match(w.tables[reg[2]].type,
                    get_columns(it, op_index)[op.column + 1] + 1, filter))

eval_select_filter(it, w, op, op_index, redo, filter) ==
    eval_select_set(it, w, op, op_index, redo, filter,
                    IF redo THEN it.op_ctx[op_index + 1].table_set
                    ELSE find_table_set(w, filter.mask))

eval_select(it, rule, w, op, op_index, redo) ==
    eval_select_filter(it, w, op, op_index, redo,
                       pair_to_filter(it, op_index, op.param))

\* test_if_transitive, with the objects of the calls in progress: a call
\* for an object that is already in progress never returns.
RECURSIVE test_if_transitive(_, _, _, _, _, _)
RECURSIVE test_if_transitive_loop(_, _, _, _, _, _, _)
test_if_transitive(w, table_set, all_for_pred, table_obj, tr_filter, path) ==
    LET table == table_from_entity(w, table_obj)
        table_record == ecs_sparse_get_sparse(all_for_pred, table)
    IN IF table_obj \in path THEN "diverges"
       ELSE IF table = NULL THEN "false"
       ELSE IF ecs_sparse_get_sparse(table_set, table).table /= NULL
       THEN "true"
       ELSE IF table_record.table = NULL THEN "false"
       ELSE test_if_transitive_loop(w, table_set, all_for_pred, tr_filter,
                path \cup {table_obj}, w.tables[table_record.table].type,
                table_record.column)

test_if_transitive_loop(w, table_set, all_for_pred, tr_filter, path, type, column) ==
    LET obj == ecs_entity_t_lo(type[column + 1])
        sub == test_if_transitive(w, table_set, all_for_pred, obj, tr_filter,
                                  path)
        next == find_next_match(type, column + 1, tr_filter)
    IN IF sub /= "false" THEN sub
       ELSE IF next = -1 THEN "false"
       ELSE test_if_transitive_loop(w, table_set, all_for_pred, tr_filter,
                                    path, type, next)

\* The do-while of the transitive probe of eval_with: the column found,
\* -1 for none, -2 when test_if_transitive never returns.
RECURSIVE with_probe(_, _, _, _, _, _)
with_probe(w, table_set, all_for_pred, tr_filter, type, column) ==
    LET new_column == find_next_match(type, column + 1, tr_filter)
        t == test_if_transitive(w, table_set, all_for_pred,
                 ecs_entity_t_lo(type[new_column + 1]), tr_filter, {})
    IN IF new_column = -1 THEN -1
       ELSE IF t = "diverges" THEN -2
       ELSE IF t = "true" THEN new_column
       ELSE with_probe(w, table_set, all_for_pred, tr_filter, type, new_column)

\* The transitive probe of eval_with, from "if (!filter.obj_wildcard &&
\* pair.transitive)" on, for the table of the input register.
with_transitive(it, w, op, op_index, redo, filter, table_set, table) ==
    LET k == op_index + 1
        type == w.tables[table].type
        tr_mask == ecs_trait(EcsWildcard, op.param.pred)
        tr_filter == set_filter_expr_mask([filter EXCEPT !.mask = tr_mask],
                                          tr_mask)
        all_for_pred == IF redo THEN it.op_ctx[k].all_for_pred
                        ELSE find_table_set(w, tr_mask)
        it2 == [it EXCEPT !.op_ctx[k].all_for_pred = all_for_pred]
        tr_record == ecs_sparse_get_sparse(all_for_pred, table)
        start == IF redo THEN get_columns(it, op_index)[op.column + 1]
                 ELSE tr_record.column - 1
        \* ecs_assert(all_for_pred != NULL), ecs_assert(column != -1)
        asserted == (~redo /\ all_for_pred = <<>>) \/ start = -1
        Probed(found) ==
            IF found = -2
            THEN [Out(it2, FALSE) EXCEPT !.hang = TRUE, !.asserted = asserted]
            ELSE IF found = -1
            THEN [Out(it2, FALSE) EXCEPT !.asserted = asserted]
            ELSE [Out(match_found(SetCol(it2, op_index, op, found), op,
                                  op_index, filter, type, found), TRUE)
                    EXCEPT !.asserted = asserted]
    IN IF ~redo /\ tr_record.table = NULL THEN Out(it2, FALSE)
       ELSE Probed(with_probe(w, table_set, all_for_pred, tr_filter, type,
                              start))

\* eval_with from "if (new_column == -1)" on.
with_column(it, w, op, op_index, redo, filter, table_set, table, new_column) ==
    IF new_column /= -1
    THEN Out(match_found(SetCol(it, op_index, op, new_column), op, op_index,
                         filter, w.tables[table].type, new_column), TRUE)
    ELSE IF filter.obj_wildcard \/ ~op.param.transitive THEN Out(it, FALSE)
    ELSE with_transitive(it, w, op, op_index, redo, filter, table_set, table)

\* eval_with with a redo that searches from the column of the last match
\* instead of the one after it.
with_table_same_column(it, w, op, op_index, redo, filter, table_set, tr) ==
    LET table == tr.table
        table_record == ecs_sparse_get_sparse(table_set, table)
    IN IF tr.ub THEN [Out(it, FALSE) EXCEPT !.ub = TRUE]
       ELSE IF table = NULL THEN Out(it, FALSE)
       ELSE IF redo
       THEN with_column(it, w, op, op_index, redo, filter, table_set, table,
                find_next_match(w.tables[table].type,
                    get_columns(it, op_index)[op.column + 1], filter))
       ELSE IF table_record.table = NULL
       THEN (IF ~op.param.transitive /\ ~filter.obj_wildcard
             THEN Out(it, FALSE)
             ELSE with_column(it, w, op, op_index, redo, filter, table_set,
                              table, -1))
       ELSE with_column(it, w, op, op_index, redo, filter, table_set, table,
                find_next_match(w.tables[table].type, table_record.column,
                                filter))

\* eval_with once the table set is known to exist.
with_table(it, w, op, op_index, redo, filter, table_set, tr) ==
    LET table == tr.table
        table_record == ecs_sparse_get_sparse(table_set, table)
    IN IF tr.ub THEN [Out(it, FALSE) EXCEPT !.ub = TRUE]
       ELSE IF table = NULL THEN Out(it, FALSE)
       ELSE IF redo
       THEN with_column(it, w, op, op_index, redo, filter, table_set, table,
                find_next_match(w.tables[table].type,
                    get_columns(it, op_index)[op.column + 1] + 1, filter))
       ELSE IF table_record.table = NULL
       THEN (IF ~op.param.transitive /\ ~filter.obj_wildcard
             THEN Out(it, FALSE)
             ELSE with_column(it, w, op, op_index, redo, filter, table_set,
                              table, -1))
       ELSE with_column(it, w, op, op_index, redo, filter, table_set, table,
                find_next_match(w.tables[table].type, table_record.column,
                                filter))

eval_with_set(it, rule, w, op, op_index, redo, filter, table_set) ==
    IF table_set = <<>>
    THEN Out([it EXCEPT !.op_ctx[op_index + 1].table_set = table_set], FALSE)
    ELSE with_table([it EXCEPT !.op_ctx[op_index + 1].table_set = table_set],
                    w, op, op_index, redo, filter, table_set,
                    table_from_reg(rule, w, op, get_registers(it, op_index),
                                   op.r_in))

\* eval_with without the early return on a redo of a filter that has no
\* wildcard.
eval_with_filter_redo_any(it, rule, w, op, op_index, redo, filter) ==
    eval_with_set(it, rule, w, op, op_index, redo, filter,
                  IF redo THEN it.op_ctx[op_index + 1].table_set
                  ELSE find_table_set(w, filter.mask))

eval_with_filter(it, rule, w, op, op_index, redo, filter) ==
    IF redo /\ ~filter.wildcard THEN Out(it, FALSE)
    ELSE eval_with_set(it, rule, w, op, op_index, redo, filter,
                       IF redo THEN it.op_ctx[op_index + 1].table_set
                       ELSE find_table_set(w, filter.mask))

eval_with(it, rule, w, op, op_index, redo) ==
    eval_with_filter(it, rule, w, op, op_index, redo,
                     pair_to_filter(it, op_index, op.param))

RECURSIVE each_skip(_, _, _)
\* The loop over builtin entities: the row of the entity assigned, or -1.
each_skip(entities, row, count) ==
    IF entities[row + 1] \in {EcsWildcard, EcsThis}
    THEN (IF row + 1 = count THEN -1 ELSE each_skip(entities, row + 1, count))
    ELSE row

eval_each(it, rule, w, op, op_index, redo) ==
    LET regs == get_registers(it, op_index)
        r_in == op.r_in
        r_out == op.r_out
        table == regs[r_in + 1][2]
        count == ecs_table_count(w, table)
        entities == w.tables[table].entities
        row == IF ~redo THEN 0 ELSE it.op_ctx[op_index + 1].row + 1
        it1 == [it EXCEPT !.op_ctx[op_index + 1].row = row]
        found == each_skip(entities, row, count)
    IN IF regs[r_in + 1][1] /= "t" \/ table = NULL
       THEN [Out(it, FALSE) EXCEPT !.ub = TRUE]
       ELSE IF row >= count
       THEN [Out(it1, FALSE) EXCEPT !.asserted = (count = 0)]
       ELSE IF found = -1 THEN Out(it1, FALSE)
       ELSE Out(SetReg(it1, op_index, r_out, RegEntity(entities[found + 1])),
                TRUE)

eval_yield(it, redo) == Out(it, FALSE)

(***************************************************************************)
(* Dfs                                                                     *)
(***************************************************************************)
DfsFrame(table_set, table_index, table, row, column) ==
    [table_set |-> table_set, table_index |-> table_index, table |-> table,
     row |-> row, column |-> column]

\* Success of eval_dfs: the table to the output register, the matched id
\* to the components.
dfs_found(it, w, op, op_index, table, column) ==
    Out(set_column(SetReg(it, op_index, op.r_out, RegTable(table)), op,
                   w.tables[table].type, column), TRUE)

\* The frame of the table found stored over the frame of the table through
\* whose entity it was reached, instead of after it.
dfs_push_over(it, op_index, frame) ==
    [it EXCEPT !.op_ctx[op_index + 1].stack[it.op_ctx[op_index + 1].sp + 1] =
                    frame]

\* A frame pushed on the stack of the operation.
dfs_push(it, op_index, frame) ==
    [it EXCEPT !.op_ctx[op_index + 1].sp = @ + 1,
               !.op_ctx[op_index + 1].stack = Append(@, frame)]

RECURSIVE dfs_outer(_, _, _, _, _, _)
RECURSIVE dfs_while(_, _, _, _, _, _, _)
RECURSIVE dfs_inner(_, _, _, _, _, _)

\* do { sp = op_ctx->sp; frame = &op_ctx->stack[sp]; ...
dfs_outer(w, it, op, op_index, filter, pair) ==
    dfs_while(w, it, op, op_index, filter, pair, it.op_ctx[op_index + 1].sp)

\* The body of the while loop, for what find_next_table returned.
dfs_while_table(w, it, op, op_index, filter, pair, sp, rec) ==
    LET k == op_index + 1
        frame == it.op_ctx[k].stack[sp + 1]
    IN IF rec.table /= NULL
       THEN dfs_found([it EXCEPT !.op_ctx[k].stack[sp + 1] =
                        DfsFrame(frame.table_set, rec.table_index, rec.table,
                                 0, rec.column)],
                      w, op, op_index, rec.table, rec.column)
       ELSE IF sp - 1 < 0
       THEN Out([it EXCEPT !.op_ctx[k].sp = sp - 1,
                           !.op_ctx[k].stack = <<>>], FALSE)
       ELSE dfs_while(w,
                [it EXCEPT !.op_ctx[k].sp = sp - 1,
                           !.op_ctx[k].stack =
                                [SubSeq(@, 1, sp) EXCEPT ![sp].row = @ + 1]],
                op, op_index, filter, pair, sp - 1)

\* while ((sp >= 0) && (row >= ecs_table_count(table))) { ... }
dfs_while(w, it, op, op_index, filter, pair, sp) ==
    LET frame == it.op_ctx[op_index + 1].stack[sp + 1]
    IN IF sp >= 0 /\ frame.row >= ecs_table_count(w, frame.table)
       THEN dfs_while_table(w, it, op, op_index, filter, pair, sp,
                find_next_table(w, frame.table_set, filter, frame.table_index))
       ELSE dfs_inner(w, it, op, op_index, pair, sp)

\* The body of the inner loop, for the filter of the entity of the row.
dfs_inner_filter(w, it, op, op_index, pair1, sp, filter, table_set, rec) ==
    LET k == op_index + 1
        frame == it.op_ctx[k].stack[sp + 1]
        advanced == [it EXCEPT !.op_ctx[k].stack[sp + 1].row = @ + 1]
    IN IF table_set /= <<>> /\ sp + 1 >= DfsStorage
       THEN \* new_frame = &op_ctx->stack[sp + 1] is outside storage[]
            [Out(it, FALSE) EXCEPT !.ub = TRUE]
       ELSE IF table_set /= <<>> /\ rec.table /= NULL
       THEN dfs_found(dfs_push(it, op_index,
                        DfsFrame(table_set, rec.table_index, rec.table, 0,
                                 rec.column)),
                      w, op, op_index, rec.table, rec.column)
       ELSE IF frame.row + 1 < ecs_table_count(w, frame.table)
       THEN dfs_inner(w, advanced, op, op_index, pair1, sp)
       ELSE dfs_outer(w, advanced, op, op_index, filter, pair1)

dfs_inner_pair(w, it, op, op_index, pair1, sp, filter) ==
    dfs_inner_filter(w, it, op, op_index, pair1, sp, filter,
        find_table_set(w, filter.mask),
        find_next_table(w, find_table_set(w, filter.mask), filter, -1))

\* do { e = entities[row]; ... } while (!table && row < row_count);
dfs_inner(w, it, op, op_index, pair, sp) ==
    LET frame == it.op_ctx[op_index + 1].stack[sp + 1]
        e == w.tables[frame.table].entities[frame.row + 1]
        pair1 == [pair EXCEPT !.reg_mask = @ \ {RULE_PAIR_OBJECT}, !.obj = e]
    IN dfs_inner_pair(w, it, op, op_index, pair1, sp,
                      pair_to_filter(it, op_index, pair1))

\* The first visit of eval_dfs, for what find_next_table returned.
dfs_first(it, w, op, op_index, table_set, rec) ==
    LET first == [it EXCEPT !.op_ctx[op_index + 1].sp = 0,
                            !.op_ctx[op_index + 1].stack =
                                <<DfsFrame(table_set, rec.table_index,
                                           rec.table, 0, rec.column)>>]
    IN IF table_set = <<>> \/ rec.table = NULL THEN Out(first, FALSE)
       ELSE dfs_found(first, w, op, op_index, rec.table, rec.column)

eval_dfs_filter(it, w, op, op_index, redo, filter) ==
    IF redo THEN dfs_outer(w, it, op, op_index, filter, op.param)
    ELSE dfs_first(it, w, op, op_index, find_table_set(w, filter.mask),
                   find_next_table(w, find_table_set(w, filter.mask), filter,
                                   -1))

eval_dfs(it, rule, w, op, op_index, redo) ==
    eval_dfs_filter(it, w, op, op_index, redo,
                    pair_to_filter(it, op_index, op.param))

(***************************************************************************)
(* The driver                                                              *)
(***************************************************************************)
eval_op(it, rule, w, op, op_index, redo) ==
    CASE op.kind = "Input" -> eval_input(it, redo)
      [] op.kind = "Dfs" -> eval_dfs(it, rule, w, op, op_index, redo)
      [] op.kind = "Select" -> eval_select(it, rule, w, op, op_index, redo)
      [] op.kind = "With" -> eval_with(it, rule, w, op, op_index, redo)
      [] op.kind = "Each" -> eval_each(it, rule, w, op, op_index, redo)
      [] op.kind = "Yield" -> eval_yield(it, redo)
      [] OTHER -> Out(it, FALSE)

push_registers(it, rule, cur, next) ==
    IF rule.variable_count = 0 THEN it
    ELSE [it EXCEPT !.registers[next + 1] = it.registers[cur + 1]]

\* push_columns that copies nothing.
push_columns_skipped(it, rule, cur, next) == it

push_columns(it, rule, cur, next) ==
    IF rule.column_count = 0 THEN it
    ELSE [it EXCEPT !.columns[next + 1] = it.columns[cur + 1]]

\* it->table.columns[i] ++, of a column that may never have been written
Incr(c) == IF c = Uninit THEN Uninit ELSE c + 1

set_iter_table(it, w, table, cur) ==
    [it EXCEPT !.count = ecs_table_count(w, table),
               !.table = table,
               !.columns[cur + 1] = [c \in DOMAIN @ |-> Incr(@[c])]]

\* The Yield block publishing an entity without its row: the offset is left
\* as it was.
yield_result_offset_unset(it, rule, w, op, cur) ==
    LET r == op.r_in
        reg == get_registers(it, cur)[r + 1]
        is_table == VarAt(rule, r).kind = EcsRuleVarKindTable
        table == IF is_table THEN reg[2] ELSE table_from_entity(w, reg[2])
        Published(it1) ==
            [Out(IF is_table THEN it1 ELSE [it1 EXCEPT !.count = 1], TRUE)
                EXCEPT !.asserted = (it1.count = 0)]
    IN IF r = UINT8_MAX THEN Out([it EXCEPT !.count = 0], TRUE)
       ELSE IF is_table /\ reg[1] /= "t"
       THEN [Out(it, TRUE) EXCEPT !.ub = TRUE]
       ELSE IF ~is_table /\ (reg[1] /= "e" \/ ~HasRecord(w, reg[2]))
       THEN [Out(it, TRUE) EXCEPT !.ub = TRUE, !.asserted = reg[1] = "e"]
       ELSE Published(set_iter_table(it, w, table, cur))

\* The "if (op->kind == EcsRuleYield)" block of ecs_rule_next.
yield_result(it, rule, w, op, cur) ==
    LET r == op.r_in
        reg == get_registers(it, cur)[r + 1]
        e == reg[2]
        is_table == VarAt(rule, r).kind = EcsRuleVarKindTable
        table == IF is_table THEN reg[2] ELSE table_from_entity(w, e)
        Published(it1) ==
            IF is_table
            THEN [Out(it1, TRUE) EXCEPT !.asserted = (it1.count = 0)]
            ELSE [Out([it1 EXCEPT !.count = 1, !.offset = RowOf(w, e)], TRUE)
                    EXCEPT !.asserted = (it1.count = 0)]
    IN IF r = UINT8_MAX THEN Out([it EXCEPT !.count = 0], TRUE)
       ELSE IF is_table /\ reg[1] /= "t"
       THEN [Out(it, TRUE) EXCEPT !.ub = TRUE]
       ELSE IF ~is_table /\ (reg[1] /= "e" \/ ~HasRecord(w, e))
       THEN \* ecs_assert(record != NULL), then record->table
            [Out(it, TRUE) EXCEPT !.ub = TRUE, !.asserted = reg[1] = "e"]
       ELSE Published(set_iter_table(it, w, table, cur))

\* What an iteration of the loop of ecs_rule_next leaves: the iterator, the
\* local redo, the result of eval_op, and how the iteration ended
\* ("continue", "return true", "return false").
StepResult(it, redo, ev, ends, cur, op) ==
    [it |-> it, redo |-> redo, result |-> ev.result, asserted |-> ev.asserted,
     ub |-> ev.ub, hang |-> ev.hang, ends |-> ends, cur |-> cur,
     kind |-> op.kind]

\* The iteration that returns from Yield without storing redo in the
\* iterator.
rule_next_moved_redo_unsaved(moved, rule, w, ev, cur, op) ==
    LET Yielded(y) ==
            [StepResult(y.it, ~ev.result, ev, "return true", cur, op)
                EXCEPT !.asserted = ev.asserted \/ y.asserted, !.ub = y.ub]
    IN IF op.kind = "Yield"
       THEN Yielded(yield_result(moved, rule, w, op, cur))
       ELSE IF moved.op = -1
       THEN StepResult(ecs_rule_iter_free(moved, rule), ~ev.result, ev,
                       "return false", cur, op)
       ELSE StepResult(moved, ~ev.result, ev, "continue", cur, op)

\* The iteration after the "if (result) ... else ..." block.
rule_next_moved(moved, rule, w, ev, cur, op) ==
    LET Yielded(y) ==
            [StepResult([y.it EXCEPT !.redo = ~ev.result], ~ev.result, ev,
                        "return true", cur, op)
                EXCEPT !.asserted = ev.asserted \/ y.asserted, !.ub = y.ub]
    IN IF op.kind = "Yield"
       THEN Yielded(yield_result(moved, rule, w, op, cur))
       ELSE IF moved.op = -1
       THEN StepResult(ecs_rule_iter_free(moved, rule), ~ev.result, ev,
                       "return false", cur, op)
       ELSE StepResult(moved, ~ev.result, ev, "continue", cur, op)

\* The iteration after eval_op returned.
rule_next_evaluated(rule, w, redo, ev, cur, op) ==
    IF ev.ub \/ ev.hang
    THEN StepResult(ev.it, redo, ev, "continue", cur, op)
    ELSE IF ev.result
    THEN rule_next_moved(
            push_columns(
                push_registers([ev.it EXCEPT !.op = op.on_ok], rule, cur,
                               op.on_ok),
                rule, cur, op.on_ok),
            rule, w, ev, cur, op)
    ELSE rule_next_moved([ev.it EXCEPT !.op = op.on_fail], rule, w, ev, cur,
                         op)

\* One iteration of the do-while of ecs_rule_next.
rule_next_step(it, rule, w, redo) ==
    rule_next_evaluated(rule, w, redo,
        eval_op(it, rule, w, rule.operations[it.op + 1], it.op, redo),
        it.op, rule.operations[it.op + 1])

\* ecs_rule_find_variable looking for a variable of any kind.
ecs_rule_find_variable_any_kind(rule, name) ==
    LET v == find_variable(rule, EcsRuleVarKindUnknown, name)
    IN IF v /= -1 THEN VarAt(rule, v).id ELSE -1

ecs_rule_find_variable(rule, name) ==
    LET v == find_variable(rule, EcsRuleVarKindEntity, name)
    IN IF v /= -1 THEN VarAt(rule, v).id ELSE -1

\* ecs_rule_variable reading the registers of the first frame.
ecs_rule_variable_first_frame(it, rule, var_id) ==
    IF VarAt(rule, var_id).kind = EcsRuleVarKindEntity
    THEN RegAsEntity(get_registers(it, 0), var_id)
    ELSE 0

\* ecs_rule_variable: the value of an Entity-kind variable, 0 for another.
ecs_rule_variable(it, rule, var_id) ==
    IF VarAt(rule, var_id).kind = EcsRuleVarKindEntity
    THEN RegAsEntity(get_registers(it, it.op), var_id)
    ELSE 0

(***************************************************************************)
(* What the rule means in the world                                        *)
(***************************************************************************)
HasId(w, s, id) ==
    HasRecord(w, s) /\ id \in Range(w.tables[table_from_entity(w, s)].type)

\* The entities reachable from s over one or more p edges.
RECURSIVE ReachFrom(_, _, _, _)
ReachFrom(w, p, frontier, seen) ==
    LET next == {o \in UNION {{ecs_entity_t_lo(id) :
                        id \in {x \in Range(w.tables[t].type) :
                                    x.role = ECS_TRAIT /\ x.hi = p}} :
                    t \in {table_from_entity(w, s) :
                              s \in {f \in frontier : HasRecord(w, f)}}} : TRUE}
    IN IF next \subseteq seen THEN seen
       ELSE ReachFrom(w, p, next \ seen, seen \cup next)

Holds2(w, p, s, o) ==
    IF ecs_has_entity_Transitive(w, p)
    THEN o \in ReachFrom(w, p, {s}, {})
    ELSE HasId(w, s, ecs_trait(o, p))

Holds1(w, p, s) == HasId(w, s, Plain(p))

Value(a, id) == IF IsVarId(id) THEN a[id.name] ELSE id.entity

TermHolds(w, a, column) ==
    IF argc(column) = 1
    THEN Holds1(w, Value(a, column.pred), Value(a, column.argv[1]))
    ELSE Holds2(w, Value(a, column.pred), Value(a, column.argv[1]),
                Value(a, column.argv[2]))

Satisfies(w, sig, a) == \A i \in 1..Len(sig) : TermHolds(w, a, sig[i])

SigIds(sig) ==
    UNION {{sig[i].pred} \cup Range(sig[i].argv) : i \in 1..Len(sig)}

VarNames(sig) == {id.name : id \in {x \in SigIds(sig) : IsVarId(x)}}

\* The entities a variable can be bound to: the entities and ids of the
\* world, the builtin ones excepted.
Universe(w) ==
    (UNION {Range(w.tables[t].entities) \cup
            UNION {{id.lo, id.hi} : id \in Range(w.tables[t].type)} :
                t \in 1..Len(w.tables)}) \ {0, EcsWildcard, EcsThis}

Solutions(w, sig) ==
    {a \in [VarNames(sig) -> Universe(w)] : Satisfies(w, sig, a)}

\* The entities of the yielded result: count rows of the table from offset.
YieldedEntities(it, w) ==
    {w.tables[it.table].entities[i] : i \in (it.offset + 1)..(it.offset + it.count)}

\* The assignments a yielded result stands for: each Entity-kind variable
\* bound to what ecs_rule_variable returns, "." to each yielded entity.
YieldedAssignments(it, rule, w) ==
    LET names == VarNames(rule.sig)
        yield == rule.operations[rule.operation_count]
        reg(n) == ecs_rule_variable(it, rule, ecs_rule_find_variable(rule, n))
        base == [n \in names |-> IF n = "." /\ yield.r_in /= UINT8_MAX
                                 THEN 0 ELSE reg(n)]
    IN IF "." \in names /\ yield.r_in /= UINT8_MAX
       THEN {[base EXCEPT !["."] = e] : e \in YieldedEntities(it, w)}
       ELSE {base}

(***************************************************************************)
(* The rules and worlds the application is run on                          *)
(***************************************************************************)
Corpus ==
    { Term2(Ent(Name.Knows), This, Ent(Name.Bob)),
      Term2(Ent(Name.Knows), This, Var("X")),
      Term2(Ent(Name.Eats), This, Ent(Name.Apple)),
      Term2(Ent(Name.Eats), This, Var("X")),
      Term1(Ent(Name.Name), This),
      Term2(Ent(Name.Knows), Ent(Name.Alice), Ent(Name.Carol)),
      Term2(Ent(Name.Knows), Ent(Name.Dave), Ent(Name.Carol)),
      Term2(Ent(Name.Eats), Ent(Name.Alice), Ent(Name.Apple)),
      Term2(Ent(Name.Eats), Ent(Name.Carol), Ent(Name.Apple)),
      Term2(Ent(Name.Eats), Ent(Name.Alice), Var("X")),
      Term2(Ent(Name.Knows), Var("X"), Var("Y")),
      Term2(Ent(Name.Eats), Var("Z"), Ent(Name.Apple)),
      Term2(Ent(Name.Knows), Var("X"), This),
      Term2(Var("P"), This, Var("X")) }

RECURSIVE SeqsUpTo(_, _)
SeqsUpTo(S, n) ==
    IF n = 0 THEN {<<>>}
    ELSE LET shorter == SeqsUpTo(S, n - 1)
         IN shorter \cup {Append(q, x) : q \in shorter, x \in S}

\* Name(V1), Name(V2), ...: n distinct subject variables.
ManySubjects(n) == [i \in 1..n |-> Term1(Ent(Name.Name), Var(ToString(i)))]

\* "." is a subject once, X twice.
ThisAndMore ==
    << Term2(Ent(Name.Knows), Var("X"), This),
       Term2(Ent(Name.Knows), Var("X"), Var("Y")),
       Term2(Ent(Name.Knows), This, Var("Y")) >>

\* A cyclic dependency: X is the object where Y is the subject, and Y where
\* X is.
CyclicKnows ==
    << Term2(Ent(Name.Knows), Var("X"), Var("Y")),
       Term2(Ent(Name.Knows), Var("Y"), Var("X")) >>

\* A chain of dependencies: Y is the object where X is the subject, and the
\* subject of a term of its own.
ChainKnows ==
    << Term2(Ent(Name.Knows), Var("X"), Var("Y")),
       Term2(Ent(Name.Knows), Var("Y"), Var("Z")) >>

\* X is selected by the first term and is subject and object of the second.
SelfKnows ==
    << Term1(Ent(Name.Name), Var("X")),
       Term2(Ent(Name.Knows), Var("X"), Var("X")) >>

\* On WorldDeep: everything that Knows the last entity of the chain.
DeepRules == {<<Term2(Ent(Name.Knows), This, Ent(Link(ChainLength + 1)))>>}

Rules ==
    (SeqsUpTo(Corpus, MaxTerms) \ {<<>>})
        \cup {ThisAndMore, CyclicKnows, ChainKnows, SelfKnows,
              ManySubjects(ECS_RULE_MAX_VARIABLE_COUNT + 1)}

(***************************************************************************)
(* The application: rule_new, rule_iter, rule_next until it returns false, *)
(* rule_iter_free at any point between two calls.                          *)
(***************************************************************************)
VARIABLES
    world,      \* index of the world in WorldList
    sig,        \* the parsed expression
    compiled,   \* what ecs_rule_new returned
    it,         \* the iterator
    pc,         \* where the application is
    redo,       \* the local redo of the ecs_rule_next call in progress
    build,      \* whether ecs_assert aborts ("debug") or is compiled out
    yielded,    \* the assignments of the results yielded so far
    nyield,     \* how often ecs_rule_next returned true
    last,       \* the last two iterations of the loop of ecs_rule_next
    frees,      \* calls of ecs_rule_iter_free by the application
    results,    \* the results that ecs_rule_next has published, in order
    other,      \* two more iterators of the same rule, once created
    seen        \* per operation, the registers of the frame before its own
                \* at its latest evaluation with redo = false

vars == <<world, sig, compiled, it, pc, redo, build, yielded, nyield, last,
          frees, results, other, seen>>

\* What a call of ecs_rule_next that returned true has published: the table,
\* the rows, the columns, and what ecs_rule_variable returns for each
\* variable.
ResultOf(i, rule) ==
    [table |-> i.table, count |-> i.count, offset |-> i.offset,
     columns |-> IF rule.operations[rule.operation_count].r_in = UINT8_MAX
                 THEN <<>> ELSE i.columns[rule.operation_count],
     variables |-> [v \in 0..(rule.variable_count - 1) |->
                        ecs_rule_variable(i, rule, v)]]

\* No further iterator was created.
NoOther == <<[pc |-> "none"], [pc |-> "none"]>>

NoStep ==
    [cur |-> -1, kind |-> "none", result |-> FALSE, ends |-> "none",
     prev_cur |-> -1, prev_result |-> FALSE]

Init ==
    /\ \/ world \in 1..2 /\ sig \in Rules
       \/ world = 3 /\ sig \in DeepRules
    /\ compiled = [status |-> "none", rule |-> NewRule(world, sig)]
    /\ it = ecs_rule_iter(NewRule(world, sig))
    /\ pc = "new"
    /\ redo = FALSE
    /\ build = "unknown"
    /\ yielded = {}
    /\ nyield = 0
    /\ last = NoStep
    /\ frees = 0
    /\ results = <<>>
    /\ other = NoOther
    /\ seen = <<>>

RuleNew ==
    /\ pc = "new"
    /\ \E r \in ecs_rule_new(world, sig) :
            /\ compiled' = r
            /\ pc' = CASE r.status = "rule" -> "compiled"
                       [] r.status = "error" -> "error"
                       [] OTHER -> "undefined"
    /\ UNCHANGED <<world, sig, it, redo, build, yielded, nyield, last, frees,
                   results, other, seen>>

RuleIter ==
    /\ pc = "compiled"
    /\ it' = ecs_rule_iter(compiled.rule)
    /\ pc' = "idle"
    /\ UNCHANGED <<world, sig, compiled, redo, build, yielded, nyield, last,
                   frees, results, other, seen>>

\* Where one iteration of the loop leaves the application, and the build
\* that this tells: an ecs_assert that failed aborts, or was compiled out.
StepOutcomes(st, b) ==
    LET normal == CASE st.ub -> "undefined"
                    [] st.hang -> "hung"
                    [] st.ends = "return true" -> "idle"
                    [] st.ends = "return false" -> "done"
                    [] OTHER -> "running"
    IN IF ~st.asserted THEN {[pc |-> normal, build |-> b]}
       ELSE (IF b /= "release"
             THEN {[pc |-> "aborted", build |-> "debug"]} ELSE {})
            \cup
            (IF b /= "debug"
             THEN {[pc |-> normal, build |-> "release"]} ELSE {})

\* The application after an iteration that left st.
Stepped(st) ==
    \E o \in StepOutcomes(st, build) :
        /\ pc' = o.pc
        /\ build' = o.build
        /\ it' = IF o.pc = "aborted" THEN it ELSE st.it
        /\ redo' = st.redo
        /\ last' = [cur |-> st.cur, kind |-> st.kind, result |-> st.result,
                    ends |-> st.ends, prev_cur |-> last.cur,
                    prev_result |-> last.result]
        /\ seen' = IF (IF pc = "idle" THEN it.redo ELSE redo) \/ st.cur = 0
                   THEN seen
                   ELSE (st.cur :> it.registers[st.cur]) @@ seen
        /\ IF o.pc = "idle"
           THEN /\ nyield' = nyield + 1
                /\ yielded' = yielded \cup
                       YieldedAssignments(st.it, compiled.rule,
                                          WorldList[world])
                /\ results' = Append(results, ResultOf(st.it, compiled.rule))
           ELSE UNCHANGED <<nyield, yielded, results>>

\* One iteration of the do-while of ecs_rule_next, on an operation of the
\* kind given; the first iteration of a call starts from it->redo.
Step(kind) ==
    /\ pc \in {"idle", "running"}
    /\ it.nulled = {}
    /\ it.op /= -1
    /\ compiled.rule.operations[it.op + 1].kind = kind
    /\ Stepped(rule_next_step(it, compiled.rule, WorldList[world],
                              IF pc = "idle" THEN it.redo ELSE redo))
    /\ UNCHANGED <<world, sig, compiled, frees, other>>

EvalInput == Step("Input")
EvalSelect == Step("Select")
EvalDfs == Step("Dfs")
EvalWith == Step("With")
EvalEach == Step("Each")
EvalYield == Step("Yield")

\* The application calls ecs_rule_iter_free.
IterFree ==
    /\ pc \in {"idle", "closed", "done"}
    /\ frees < MaxFree
    /\ it' = ecs_rule_iter_free(it, compiled.rule)
    /\ frees' = frees + 1
    /\ pc' = IF pc = "idle" THEN "closed" ELSE pc
    /\ UNCHANGED <<world, sig, compiled, redo, build, yielded, nyield, last,
                   results, other, seen>>

Next ==
    \/ RuleNew
    \/ RuleIter
    \/ EvalInput
    \/ EvalSelect
    \/ EvalDfs
    \/ EvalWith
    \/ EvalEach
    \/ EvalYield
    \/ IterFree

Spec == Init /\ [][Next]_vars

(***************************************************************************)
(* Vocabulary of the properties                                            *)
(***************************************************************************)
TermIds(column) == {column.pred} \cup Range(column.argv)

\* No variable in any position of any term.
AllGround(s) == \A i \in 1..Len(s) : \A x \in TermIds(s[i]) : ~IsVarId(x)

\* Every term's subject is a constant entity.
ZeroSubjectVariables(s) == \A i \in 1..Len(s) : ~IsVarId(s[i].argv[1])

ThisIsSubject(s) == \E i \in 1..Len(s) : s[i].argv[1].entity = EcsThis

SubjectNames(s) ==
    {s[i].argv[1].name : i \in {j \in 1..Len(s) : IsVarId(s[j].argv[1])}}

HasCycle(w, p) == \E e \in Universe(w) : e \in ReachFrom(w, p, {e}, {})

\* Some term's predicate is transitive and has a cycle in the world.
UsesCyclicTransitive(w, s) ==
    \E i \in 1..Len(s) : /\ ~IsVarId(s[i].pred)
                         /\ ecs_has_entity_Transitive(w, s[i].pred.entity)
                         /\ HasCycle(w, s[i].pred.entity)

HasMaxDepthSubject(rule) ==
    \E v \in Range(rule.variables) :
        v.kind = EcsRuleVarKindTable /\ v.depth = UINT8_MAX

\* The program of the rule is whole: Input first, Yield last, and an
\* operation emitted for every term.
FullyBuilt(rule) ==
    /\ rule.operation_count = Len(rule.operations)
    /\ rule.operation_count >= 2
    /\ rule.operations[1].kind = "Input"
    /\ rule.operations[rule.operation_count].kind = "Yield"
    /\ \A c \in 0..(rule.column_count - 1) :
          \E k \in 2..(rule.operation_count - 1) :
              /\ rule.operations[k].kind \in {"Select", "Dfs", "With"}
              /\ rule.operations[k].column = c

\* The iteration is over: rule_next returned false, the process aborted on a
\* failed ecs_assert, or a call never returns.
Ended == pc \in {"done", "aborted", "hung"}

(***************************************************************************)
(* Properties                                                              *)
(***************************************************************************)
\* C1 (soundness): every result that rule_next has yielded satisfies every
\* term of the rule in the world, with each variable bound to what
\* rule_variable returns and "." bound to each yielded entity.
C1_Soundness == \A a \in yielded : Satisfies(WorldList[world], sig, a)

\* C2 (completeness): once rule_next has returned false, every assignment of
\* the rule's variables that satisfies all terms has been yielded.
C2_Completeness ==
    pc = "done" => Solutions(WorldList[world], sig) \subseteq yielded

\* C3: on a world where a transitive predicate used by the rule has a cycle,
\* every rule_next call returns (the transitive probe of With does not
\* recurse forever) and Dfs stays inside its frame stack, so the iteration
\* can reach rule_next = false.
C3_CycleTerminates ==
    UsesCyclicTransitive(WorldList[world], sig) =>
        /\ pc /= "hung"
        /\ ~(pc = "undefined" /\ last.kind = "Dfs")

\* C4: a rule whose terms are all ground never yields twice, and when its
\* iteration is over it has yielded exactly one result if all terms hold and
\* none if some term fails.
C4_GroundOneOrZero ==
    AllGround(sig) =>
        /\ nyield <= 1
        /\ Ended =>
              nyield = (IF Satisfies(WorldList[world], sig, <<>>)
                        THEN 1 ELSE 0)

C6_ThisElectedRoot ==
    (compiled.status = "rule" /\ ThisIsSubject(sig)) =>
        elected_root(find_roots(ScanInit(emit_input(NewRule(world, sig)))))
            = "."

\* C7: rule_new returns no rule, reporting an unconstrained variable,
\* exactly when some subject variable has depth MAX after the depth
\* assignment; a rule it returns has no such variable and is fully built.
C7_UnconstrainedRejected ==
    (pc /= "new" /\ compiled.status \in {"rule", "error"}) =>
        /\ compiled.status = "error" <=> HasMaxDepthSubject(compiled.rule)
        /\ compiled.status = "error" =>
              compiled.rule.error = "unconstrained variable"
        /\ compiled.status = "rule" => FullyBuilt(compiled.rule)

\* C7 witness: rule_new has rejected a rule in which Z is a subject variable
\* that the depth assignment left at MAX.
C7_Witness ==
    /\ pc = "error"
    /\ compiled.rule.error = "unconstrained variable"
    /\ \E v \in Range(compiled.rule.variables) :
          v.name = "Z" /\ v.kind = EcsRuleVarKindTable /\ v.depth = UINT8_MAX

\* C8: rule_new fails with "too many variables" whenever the expression has
\* more than 256 distinct subject variables.
C8_TooManyVariables ==
    (pc /= "new"
        /\ Cardinality(SubjectNames(sig)) > ECS_RULE_MAX_VARIABLE_COUNT) =>
        /\ compiled.status = "error"
        /\ compiled.rule.error = "too many variables in rule"

\* C9: rule_iter_free is idempotent: whatever the calls of rule_iter_free
\* and rule_next, none of the iterator's allocations (registers, columns,
\* op contexts, component array) is released more than once.
C9_FreeIdempotent == \A what \in DOMAIN it.freed : it.freed[what] <= 1

\* C10: rule_next returns true only in the iteration that evaluated Yield,
\* which follows an operation that succeeded, and leaves op = Yield.on_fail
\* and redo = true in the iterator; evaluating Yield always suspends; and
\* rule_next returns false only with op = -1.
C10_SuspendsAtYield ==
    /\ last.ends = "return true" =>
          /\ last.kind = "Yield"
          /\ last.prev_result
          /\ pc = "idle" =>
                /\ it.op = compiled.rule.operations[last.cur + 1].on_fail
                /\ it.redo
    /\ last.kind = "Yield" => last.ends = "return true"
    /\ last.ends = "return false" => it.op = -1
    /\ pc = "done" => last.ends = "return false"

\* C10 witness: rule_next has yielded a result and, called again until the
\* program was exhausted, has returned false with op = -1.
C10_Witness ==
    /\ pc = "done"
    /\ nyield > 0
    /\ last.ends = "return false"
    /\ it.op = -1

\* The operations emitted for term c that match an id of a type.
TermOps(rule, c) ==
    {k \in 1..rule.operation_count :
        /\ rule.operations[k].kind \in {"Select", "With", "Dfs"}
        /\ rule.operations[k].column = c}

\* The table in whose type an operation matched: the table of its input
\* for With, the table it stored in its output register for Select and Dfs.
MatchedTable(rule, w, op, regs) ==
    IF op.kind = "With" THEN table_from_reg(rule, w, op, regs, op.r_in).table
    ELSE regs[op.r_out + 1][2]

\* Column c as Yield published it is the 1-based place of the matched id,
\* it->table.components[c], in the type of the table of each of ops.
ColumnPublished(rule, w, ops, regs, columns, components, c) ==
    \A k \in ops :
        LET type == w.tables[MatchedTable(rule, w, rule.operations[k],
                                          regs)].type
        IN /\ columns[c + 1] \in 1..Len(type)
           /\ type[columns[c + 1]] = components[c + 1]

PublishedColumns(i, rule, w) ==
    \A c \in 0..(rule.column_count - 1) :
        ColumnPublished(rule, w, TermOps(rule, c),
                        i.registers[rule.operation_count],
                        i.columns[rule.operation_count], i.components, c)

\* Yield's input register is a variable: the rule has a "." variable.
HasThis(rule) == rule.operations[rule.operation_count].r_in /= UINT8_MAX

UsesDfs(rule) ==
    \E k \in 1..rule.operation_count : rule.operations[k].kind = "Dfs"

\* rule_next has just returned true.
JustYielded == pc = "idle" /\ last.ends = "return true"

\* C11: on every yielded result that publishes a table, for every signature
\* column c the published column index is 1 plus the 0-based index, in the
\* matched table's type, of the id matched by the operation emitted for
\* term c, whether that operation is a Select, a With or a Dfs.
C11_PublishedColumns ==
    (JustYielded /\ HasThis(compiled.rule)) =>
        PublishedColumns(it, compiled.rule, WorldList[world])

\* The redo with which the next iteration of the loop evaluates its
\* operation: it->redo in the first iteration of a call, the local after.
RedoNow == IF pc = "idle" THEN it.redo ELSE redo

\* The operation that the next iteration evaluates.
CurOp == compiled.rule.operations[it.op + 1]

\* This step is an iteration of the loop of ecs_rule_next that evaluated an
\* operation of the kind given and came back from it.
Evaluates(kind) ==
    /\ pc \in {"idle", "running"}
    /\ it.nulled = {}
    /\ it.op /= -1
    /\ CurOp.kind = kind
    /\ last'.kind = kind
    /\ last'.cur = it.op
    /\ pc' \in {"idle", "running", "done"}

IsSentinel(e) == e \in {EcsWildcard, EcsThis}

\* The first row after row that holds an entity other than a sentinel.
NextEntityRow(entities, row) ==
    LET later == {r \in (row + 1)..(Len(entities) - 1) :
                     ~IsSentinel(entities[r + 1])}
    IN IF later = {} THEN -1 ELSE CHOOSE r \in later : \A q \in later : r <= q

\* Each returned result and left out in its output register: the next
\* entity of the table after row from, false when there is none.
EachProduces(entities, from, result, out) ==
    LET next == NextEntityRow(entities, from)
    IN /\ result = (next /= -1)
       /\ result => out = RegEntity(entities[next + 1])

\* The evaluation of the Each at index k in this step: a first visit starts
\* before row 0, a redo after the row of the entity it produced last.
EachStep(w, k, op) ==
    LET table == it.registers[k + 1][op.r_in + 1][2]
        prev == it.registers[k + 1][op.r_out + 1][2]
    IN EachProduces(w.tables[table].entities,
                    IF RedoNow THEN RowOf(w, prev) ELSE -1,
                    last'.result,
                    it'.registers[k + 1][op.r_out + 1])

\* C12: for the table in its input register, Each binds its output register
\* on the first visit to the first entity that is not Wildcard or This, on
\* every redo to the next such entity after the one it produced last, and
\* returns false when there is none: every such entity exactly once, in
\* ascending row order, also after a sentinel.
C12_EachOnceInOrder ==
    [][Evaluates("Each") => EachStep(WorldList[world], it.op, CurOp)]_vars

\* The filter of a Select whose predicate and object are both variables
\* that are still Wildcard.
BothWildcard(filter) == filter.pred_wildcard /\ filter.obj_wildcard

\* The (index in the table set, column) pairs a filter with Wildcard as
\* predicate and object matches: every pair element of the type of every
\* non-empty table of the set, with equal halves when both are one variable.
MatchColumns(type, same_var) ==
    {c \in 0..(Len(type) - 1) :
        /\ type[c + 1].role = ECS_TRAIT
        /\ (same_var => type[c + 1].lo = type[c + 1].hi)}

MatchPairs(w, set, same_var) ==
    UNION {{<<i, c>> : c \in MatchColumns(w.tables[set[i + 1].table].type,
                                          same_var)} :
              i \in {j \in 0..(Len(set) - 1) :
                        ecs_table_count(w, set[j + 1].table) > 0}}

\* p comes before q: earlier table of the set, or same table, lower column.
PairBefore(p, q) == p[1] < q[1] \/ (p[1] = q[1] /\ p[2] < q[2])

\* The Select at index k, evaluated in this step from the position from,
\* returned true at the first pair after it, false when there is none.
SelectAdvances(w, k, op, set, later) ==
    /\ last'.result = (later /= {})
    /\ last'.result =>
          LET n == CHOOSE p \in later : \A q \in later \ {p} : PairBefore(p, q)
          IN /\ it'.op_ctx[k + 1].table_index = n[1]
             /\ it'.columns[k + 1][op.column + 1] = n[2]
             /\ it'.registers[k + 1][op.r_out + 1] = RegTable(set[n[1] + 1].table)

SelectStep(w, k, op, filter, set) ==
    LET from == IF RedoNow
                THEN <<it.op_ctx[k + 1].table_index,
                       it.columns[k + 1][op.column + 1]>>
                ELSE <<-1, -1>>
    IN SelectAdvances(w, k, op, set,
          {p \in MatchPairs(w, set, filter.same_var) : PairBefore(from, p)})

SelectsAll(w, k, op, filter) ==
    BothWildcard(filter) =>
        SelectStep(w, k, op, filter, find_table_set(w, filter.mask))

\* C13: a Select whose filter has Wildcard as predicate and as object
\* returns, on the first visit, the first (non-empty table, matching column)
\* pair of the table set of its mask, on every redo the pair after the one
\* it returned last, and false when there is none: every pair exactly once.
C13_SelectEveryPairOnce ==
    [][Evaluates("Select") =>
          SelectsAll(WorldList[world], it.op, CurOp,
                     pair_to_filter(it, it.op, CurOp.param))]_vars

\* C13 witness: a Select with Wildcard as predicate and object has returned
\* more than one pair and then false.
C13_Witness ==
    /\ pc = "running"
    /\ last.kind = "Select"
    /\ ~last.result
    /\ nyield > 1
    /\ compiled.rule.operations[last.cur + 1].param.reg_mask =
          {RULE_PAIR_PREDICATE, RULE_PAIR_OBJECT}

YieldOp(rule) == rule.operations[rule.operation_count]

\* Yield's input register in the frame of Yield.
YieldReg(i, rule) ==
    i.registers[rule.operation_count][YieldOp(rule).r_in + 1]

ThisIsTable(rule) ==
    VarAt(rule, YieldOp(rule).r_in).kind = EcsRuleVarKindTable

\* What the iterator publishes, by the kind of Yield's input register.
ResultShape(i, rule, w) ==
    IF ~HasThis(rule) THEN i.count = 0
    ELSE IF ThisIsTable(rule)
    THEN /\ i.table = YieldReg(i, rule)[2]
         /\ i.count = ecs_table_count(w, i.table)
         /\ i.offset = 0
    ELSE /\ i.count = 1
         /\ i.table = table_from_entity(w, YieldReg(i, rule)[2])
         /\ i.offset = RowOf(w, YieldReg(i, rule)[2])

\* C14: when rule_next returns true the published result has count 0 when
\* the rule has no "." variable; is the whole table of Yield's input
\* register (count = its row count, from its first entity) when "." is
\* Table-kind; and is one entity (count 1, offset = the row of the entity
\* in its table) when "." is Entity-kind.
C14_ResultShape ==
    JustYielded => ResultShape(it, compiled.rule, WorldList[world])

\* C14 witness: rule_next has returned true with an Entity-kind "." bound
\* to an entity that is not in the first row of its table.
C14_Witness ==
    /\ JustYielded
    /\ HasThis(compiled.rule)
    /\ ~ThisIsTable(compiled.rule)
    /\ it.count = 1
    /\ it.offset > 0

\* The ids of the variables of a kind.
VarIds(rule, kind) ==
    {v \in 0..(rule.variable_count - 1) : VarAt(rule, v).kind = kind}

\* What the yielded result binds the variable v to: its register in the
\* frame of Yield, from which the result was published.
BoundTo(i, rule, v) == RegAsEntity(i.registers[rule.operation_count], v)

\* The entity that a result with one entity publishes.
PublishedEntity(i, w) == w.tables[i.table].entities[i.offset + 1]

VariablesOfResult(i, rule, w) ==
    /\ \A v \in VarIds(rule, EcsRuleVarKindEntity) :
          ecs_rule_variable(i, rule, v) = BoundTo(i, rule, v)
    /\ \A v \in VarIds(rule, EcsRuleVarKindTable) :
          ecs_rule_variable(i, rule, v) = 0
    /\ (HasThis(rule) /\ ~ThisIsTable(rule)) =>
          ecs_rule_variable(i, rule, YieldOp(rule).r_in) = PublishedEntity(i, w)

\* C15: after rule_next has returned true, rule_variable returns for every
\* Entity-kind variable the entity that the yielded result binds it to
\* (its register in the frame the result was published from; the published
\* entity for an Entity-kind "."), and 0 for every Table-kind variable.
C15_VariableOfResult ==
    JustYielded => VariablesOfResult(it, compiled.rule, WorldList[world])

\* C15 witness: rule_next has returned true for a rule with a Table-kind
\* variable and an Entity-kind variable that the result binds to an entity.
C15_Witness ==
    /\ JustYielded
    /\ VarIds(compiled.rule, EcsRuleVarKindTable) /= {}
    /\ \E v \in VarIds(compiled.rule, EcsRuleVarKindEntity) :
          /\ ecs_rule_variable(it, compiled.rule, v) /= EcsWildcard
          /\ HasRecord(WorldList[world], ecs_rule_variable(it, compiled.rule, v))

\* rule_iter has returned and rule_next was not called yet.
JustCreated == pc = "idle" /\ last = NoStep

\* No register of frame f (1-based) is still as ecs_os_malloc left it.
FrameWritten(i, f) ==
    \A v \in DOMAIN i.registers[f] : i.registers[f][v] /= RegUninit

FrameIsWildcard(i, f) ==
    \A v \in DOMAIN i.registers[f] : i.registers[f][v] = RegEntity(EcsWildcard)

\* C16 as stated: rule_iter returns an iterator at op 0 with redo = false in
\* which every cell of the operation_count x variable_count register file
\* holds Wildcard.
C16_AllRegistersWildcard ==
    JustCreated =>
        /\ it.op = 0
        /\ ~it.redo
        /\ \A f \in DOMAIN it.registers : FrameIsWildcard(it, f)

\* C16 amended: rule_iter returns an iterator at op 0 with redo = false in
\* which the registers of frame 0 hold Wildcard; and while the program
\* runs, every frame up to the one of the current operation has been
\* written, so no operation reads a register that rule_iter left unset.
C16_FirstFrameWildcard ==
    /\ JustCreated =>
          /\ it.op = 0
          /\ ~it.redo
          /\ FrameIsWildcard(it, 1)
    /\ (pc \in {"idle", "running"} /\ it.op /= -1) =>
          \A f \in 1..(it.op + 1) : FrameWritten(it, f)

\* C16 witness: a program has run up to its Yield from an iterator whose
\* frames after the first were unset when rule_iter returned.
C16_Witness ==
    /\ JustYielded
    /\ compiled.rule.variable_count > 0
    /\ FrameWritten(it, compiled.rule.operation_count)
    /\ ~FrameWritten(ecs_rule_iter(compiled.rule), compiled.rule.operation_count)

(***************************************************************************)
(* Two iterators of one rule.  The first iterator runs alone until         *)
(* ecs_rule_next returns false; then the application creates two more      *)
(* iterators of the rule and interleaves the iterations of their           *)
(* ecs_rule_next loops in any order.                                       *)
(***************************************************************************)
\* The process is over: a failed ecs_assert, undefined behaviour, or a call
\* that never returns.
Halted == {"aborted", "undefined", "hung"}

\* The rules that the iterators are run on: every term alone, and two
\* rules of two terms whose programs have an Each and a With.
RulesTwo ==
    (SeqsUpTo(Corpus, 1) \ {<<>>})
        \cup {<<Term1(Ent(Name.Name), This),
                Term2(Ent(Name.Knows), Var("X"), This)>>,
              <<Term2(Ent(Name.Eats), This, Ent(Name.Apple)),
                Term2(Ent(Name.Knows), This, Var("X"))>>}

InitTwo == Init /\ sig \in RulesTwo

\* The application calls ecs_rule_iter on the rule again.
RuleIterOther ==
    /\ pc = "done"
    /\ \E n \in DOMAIN other :
          /\ other[n].pc = "none"
          /\ other' = [other EXCEPT ![n] =
                          [pc |-> "idle", it |-> ecs_rule_iter(compiled.rule),
                           redo |-> FALSE, results |-> <<>>,
                           rule |-> compiled.rule]]
    /\ UNCHANGED <<world, sig, compiled, it, pc, redo, build, yielded, nyield,
                   last, frees, results, seen>>

\* An iteration on the iterator o that finds the row of every Each in a
\* place shared with the other iterator, as its last step left it.
other_next_step_shared_row(o, peer, rule, w) ==
    rule_next_step(
        [o.it EXCEPT !.op_ctx =
            IF peer.pc \in {"idle", "running"}
            THEN [k \in DOMAIN @ |->
                    [@[k] EXCEPT !.row = peer.it.op_ctx[k].row]]
            ELSE @],
        rule, w, IF o.pc = "idle" THEN o.it.redo ELSE o.redo)

\* One iteration of the loop of ecs_rule_next on the iterator o; peer is
\* the other iterator, to which the iteration has no access.
other_next_step(o, peer, rule, w) ==
    rule_next_step(o.it, rule, w, IF o.pc = "idle" THEN o.it.redo ELSE o.redo)

\* The iterator o after an iteration that left st in the way out.
OtherAfter(o, st, out, rule) ==
    IF out.pc = "aborted" THEN [o EXCEPT !.pc = out.pc]
    ELSE [o EXCEPT !.pc = out.pc, !.it = st.it, !.redo = st.redo,
                   !.results = IF out.pc = "idle"
                               THEN Append(@, ResultOf(st.it, rule)) ELSE @]

\* The application after an iteration on the iterator n that left st.
OtherStepped(n, st) ==
    \E out \in StepOutcomes(st, build) :
        /\ build' = out.build
        /\ pc' = IF out.pc \in Halted THEN out.pc ELSE pc
        /\ other' = [other EXCEPT ![n] = OtherAfter(@, st, out, compiled.rule)]

StepOther ==
    /\ pc = "done"
    /\ \E n \in DOMAIN other :
          /\ other[n].pc \in {"idle", "running"}
          /\ other[n].it.op /= -1
          /\ OtherStepped(n, other_next_step(other[n], other[3 - n],
                                             compiled.rule, WorldList[world]))
    /\ UNCHANGED <<world, sig, compiled, it, redo, yielded, nyield, last,
                   frees, results, seen>>

NextTwo ==
    \/ RuleNew
    \/ RuleIter
    \/ EvalInput
    \/ EvalSelect
    \/ EvalDfs
    \/ EvalWith
    \/ EvalEach
    \/ EvalYield
    \/ RuleIterOther
    \/ StepOther

SpecTwo == InitTwo /\ [][NextTwo]_vars

IsPrefix(s, t) == Len(s) <= Len(t) /\ SubSeq(t, 1, Len(s)) = s

\* The iterator o has so far yielded what the iterator that ran alone
\* yielded, in the same order, and all of it once it is exhausted; and the
\* rule is as it was when o was created.
SameAsAlone(o, alone, rule) ==
    o.pc /= "none" =>
        /\ o.rule = rule
        /\ IsPrefix(o.results, alone)
        /\ o.pc = "done" => o.results = alone

ecs_rule_variable_name(rule, var_id) == rule.variables[var_id + 1].name

ecs_rule_variable_count(rule) == rule.variable_count

\* The names to look up: those of the expression, and one that is not in it.
LookedUp(s) == VarNames(s) \cup {"none"}

\* The names of the variables of a rule that have one of the kinds.
NamesOfKind(rule, kinds) ==
    {rule.variables[i].name :
        i \in {j \in 1..Len(rule.variables) : rule.variables[j].kind \in kinds}}

\* ecs_rule_find_variable returns -1 for a name outside known, and otherwise
\* the id of a variable with that name.
FindsVariable(rule, name, known) ==
    LET i == ecs_rule_find_variable(rule, name)
    IN IF name \notin known THEN i = -1
       ELSE /\ i \in 0..(ecs_rule_variable_count(rule) - 1)
            /\ ecs_rule_variable_name(rule, i) = name

Iterates ==
    /\ pc \in {"idle", "running"}
    /\ it.nulled = {}
    /\ it.op /= -1
    /\ last'.cur = it.op
    /\ pc' \in {"idle", "running", "done"}

\* The frames outside the set given are in j as they are in i.
FramesKept(i, j, frames) ==
    \A f \in DOMAIN i.registers \ frames :
        /\ j.registers[f] = i.registers[f]
        /\ j.columns[f] = i.columns[f]

\* Frame cur (0-based) of j was copied to frame next.
FrameCopied(j, cur, next) ==
    /\ j.registers[next + 1] = j.registers[cur + 1]
    /\ j.columns[next + 1] = j.columns[cur + 1]

\* The iteration on operation op at index k took the iterator from i to j.
DriverStep(i, j, k, op) ==
    IF last'.result
    THEN /\ j.op = op.on_ok
         /\ FrameCopied(j, k, op.on_ok)
         /\ redo' = FALSE
         /\ FramesKept(i, j, {k + 1, op.on_ok + 1})
    ELSE /\ j.op = op.on_fail
         /\ redo' = TRUE
         /\ FramesKept(i, j, {k + 1})

\* C19: when eval of operation k returns true the driver sets op to
\* on_ok(k), copies the registers and the columns of frame k to frame
\* on_ok(k) and sets redo = false; when it returns false the driver sets op
\* to on_fail(k) and redo = true, and copies no frame: every frame but k is
\* as it was.
C19_DriverStep == [][Iterates => DriverStep(it, it', it.op, CurOp)]_vars

\* C19 witness: an operation that had failed was evaluated again with
\* redo = true and succeeded, and its frame, which binds a variable, was
\* copied to the frame of the next operation.
C19_Witness ==
    /\ pc = "running"
    /\ last.result
    /\ ~last.prev_result
    /\ last.prev_cur > last.cur
    /\ ~redo
    /\ it.op = compiled.rule.operations[last.cur + 1].on_ok
    /\ FrameCopied(it, last.cur, it.op)
    /\ \E v \in DOMAIN it.registers[it.op + 1] :
          it.registers[it.op + 1][v] \notin {RegEntity(EcsWildcard), RegUninit}

\* The operations that build a filter from the registers of the frame
\* before their own.
BuildsFilter(op) == op.kind \in {"Select", "With", "Dfs"}

\* The operation at index k is about to be evaluated with redo = true and
\* finds the frame before its own as it was at its latest evaluation with
\* redo = false.
SameView(i, k) == k \in DOMAIN seen /\ i.registers[k] = seen[k]

\* The frames before the one of the operation at index k are in j as in i.
EarlierFramesKept(i, j, k) ==
    \A f \in 1..k : /\ j.registers[f] = i.registers[f]
                    /\ j.columns[f] = i.columns[f]

\* C20: whenever an operation k that builds a filter is evaluated with
\* redo = true, the registers of frame k-1 are the ones it saw at its most
\* recent evaluation with redo = false; and no iteration on an operation
\* with index >= k, the publication of Yield included, changes frame k-1.
C20_StableViewOnRedo ==
    [][Iterates =>
          /\ (RedoNow /\ BuildsFilter(CurOp)) => SameView(it, it.op)
          /\ EarlierFramesKept(it, it', it.op)]_vars

\* C20 witness: an operation with a variable in its filter was evaluated
\* again with redo = true, after an operation behind it had failed, found
\* the frame before its own as it had seen it, and bound a variable.
C20_Witness ==
    /\ pc = "running"
    /\ last.result
    /\ ~last.prev_result
    /\ last.prev_cur > last.cur
    /\ BuildsFilter(compiled.rule.operations[last.cur + 1])
    /\ compiled.rule.operations[last.cur + 1].param.reg_mask /= {}
    /\ SameView(it, last.cur)
    /\ it.registers[last.cur + 1] /= it.registers[last.cur]

\* The registers of frame k of j hold the halves of the id that the
\* operation matched, it->table.components[op->column], in the variables
\* that were Wildcard in its filter.
Reified(j, k, op, filter) ==
    LET elem == j.components[op.column + 1]
        regs == j.registers[k + 1]
    IN /\ filter.lo_var /= -1 =>
              regs[filter.lo_var + 1] = RegEntity(ecs_entity_t_lo(elem))
       /\ filter.hi_var /= -1 =>
              regs[filter.hi_var + 1] = RegEntity(ecs_entity_t_hi(elem))

\* C21: when Dfs returns true and its filter has a predicate or object
\* variable that is still Wildcard, the register of that variable in the
\* current frame holds the corresponding half of the matched id afterwards,
\* as after Select and With.
C21_DfsReifies ==
    [][(Evaluates("Dfs") /\ last'.result) =>
          Reified(it', it.op, CurOp,
                  pair_to_filter(it, it.op, CurOp.param))]_vars

\* An iteration of the loop of ecs_rule_next is about to evaluate an
\* operation.
AboutToEvaluate == pc \in {"idle", "running"} /\ it.nulled = {} /\ it.op /= -1

\* The register that table_from_reg and eval_each read holds what an earlier
\* operation wrote: a table for a Table-kind variable, an entity other than
\* Wildcard for an Entity-kind variable.
InputWritten(rule, regs, r) ==
    IF VarAt(rule, r).kind = EcsRuleVarKindTable
    THEN regs[r + 1][1] = "t" /\ regs[r + 1][2] /= NULL
    ELSE regs[r + 1][1] = "e" /\ regs[r + 1][2] /= EcsWildcard

ReadsInput(op) ==
    op.kind = "Each" \/ (op.kind = "With" /\ op.r_in /= UINT8_MAX)

\* C22: whenever With or Each is about to read its input register, an
\* earlier operation has written a value to it: it holds a table when the
\* variable is of the Table kind, an entity that is not Wildcard when it is
\* of the Entity kind, also for rules with cyclic dependencies such as
\* Knows(X, Y), Knows(Y, X).
C22_InputRegisterWritten ==
    (AboutToEvaluate /\ ReadsInput(CurOp)) =>
        InputWritten(compiled.rule, it.registers[it.op + 1], CurOp.r_in)

\* C23: whenever Dfs is evaluated, the frame it writes on a push,
\* stack[sp + 1], is one of the frames of the stack, however deep the chain
\* of the relation is, also when it is deeper than the 16 frames of
\* storage.
C23_DfsStackInBounds ==
    (AboutToEvaluate /\ CurOp.kind = "Dfs") =>
        ~eval_dfs(it, compiled.rule, WorldList[world], CurOp, it.op,
                  RedoNow).ub

\* The relation tree that Dfs walks, as the list of its nodes in pre-order.
\* A node is the path of frames that leads to it: for every frame the table,
\* its index in the table set of the frame and the row of the entity through
\* which the walk went on (row 0 in the last frame).  The children of a
\* table are, row by row, the non-empty tables of the set of (pred, entity).
\* Paths longer than the frames of the stack are left out.
RECURSIVE DfsTables(_, _, _, _, _)
RECURSIVE DfsRows(_, _, _, _, _, _)
DfsTables(w, pred, set, i, path) ==
    IF i >= Len(set) \/ Len(path) >= DfsStorage THEN <<>>
    ELSE IF ecs_table_count(w, set[i + 1].table) = 0
    THEN DfsTables(w, pred, set, i + 1, path)
    ELSE <<Append(path, [table |-> set[i + 1].table, table_index |-> i,
                         row |-> 0])>>
         \o DfsRows(w, pred, set[i + 1].table, i, 0, path)
         \o DfsTables(w, pred, set, i + 1, path)

DfsRows(w, pred, table, i, row, path) ==
    IF row >= ecs_table_count(w, table) THEN <<>>
    ELSE DfsTables(w, pred,
             find_table_set(w, ecs_trait(w.tables[table].entities[row + 1],
                                         pred)),
             0, Append(path, [table |-> table, table_index |-> i,
                              row |-> row]))
         \o DfsRows(w, pred, table, i, row + 1, path)

\* The node at which the stack of a Dfs stands.
DfsPath(stack) ==
    [j \in 1..Len(stack) |->
        [table |-> stack[j].table, table_index |-> stack[j].table_index,
         row |-> stack[j].row]]

\* Dfs returned true and stands at node n, whose table it has bound.
DfsYields(j, k, op, n) ==
    /\ DfsPath(j.op_ctx[k + 1].stack) = n
    /\ j.registers[k + 1][op.r_out + 1] = RegTable(n[Len(n)].table)

\* The Dfs at index k, evaluated in this step: the first visit yields the
\* first node of the list, a redo the node after the one it stands at, and
\* it returns false when there is none.
DfsWalks(k, op, nodes) ==
    IF ~RedoNow
    THEN /\ last'.result = (nodes /= <<>>)
         /\ last'.result => DfsYields(it', k, op, nodes[1])
    ELSE \E n \in 1..Len(nodes) :
            /\ nodes[n] = DfsPath(it.op_ctx[k + 1].stack)
            /\ last'.result = (n < Len(nodes))
            /\ last'.result => DfsYields(it', k, op, nodes[n + 1])

DfsStep(w, k, op, filter) ==
    DfsWalks(k, op, DfsTables(w, op.param.pred,
                              find_table_set(w, filter.mask), 0, <<>>))

Called(kind) == AboutToEvaluate /\ CurOp.kind = kind /\ frees' = frees

\* The call of this step came back.
Returned == pc' \in {"idle", "running", "done"}

\* The table that With resolves its input to.
WithInput(rule, w, op, regs) == table_from_reg(rule, w, op, regs, op.r_in).table

\* The columns of a type that hold a pair of predicate p.
PColumns(type, p) ==
    {c \in 1..Len(type) : type[c].role = ECS_TRAIT /\ type[c].hi = p}

\* The type has a pair (p, x) such that x has (p, o), or reaches an entity
\* that has, through its own pairs of p.
ReachesThrough(w, type, p, o) ==
    \E c \in PColumns(type, p) :
        o \in ReachFrom(w, p, {ecs_entity_t_lo(type[c])}, {})

\* With decides by the transitive probe: the predicate is transitive, the
\* object is not a wildcard, and the type of the table has no direct
\* (p, o).
Probes(w, op, filter, table) ==
    /\ op.param.transitive
    /\ ~filter.obj_wildcard
    /\ table /= NULL
    /\ ecs_sparse_get_sparse(find_table_set(w, filter.mask), table).table
          = NULL

ProbeDecides(w, op, filter, table) ==
    Probes(w, op, filter, table) =>
        /\ Returned
        /\ last'.result = ReachesThrough(w, w.tables[table].type,
                                         op.param.pred, filter.mask.lo)

\* C25: for a transitive predicate P and an object o that is not a
\* wildcard, With evaluated on a table whose type has no direct (P, o)
\* returns, and returns true exactly when the type has a pair (P, x) from
\* which o is reachable through P; so it returns false only when no column
\* of P in the type leads to o.
C25_TransitiveWith ==
    [][(Called("With") /\ ~RedoNow) =>
          ProbeDecides(WorldList[world], CurOp,
              pair_to_filter(it, it.op, CurOp.param),
              WithInput(compiled.rule, WorldList[world], CurOp,
                        it.registers[it.op + 1]))]_vars

\* The columns of a type that a filter matches.
FilterColumns(type, filter) ==
    {c \in 0..(Len(type) - 1) :
        /\ IdAnd(type[c + 1], filter.expr_mask) = filter.expr_match
        /\ (filter.same_var =>
                ecs_entity_t_lo(type[c + 1]) = ecs_entity_t_hi(type[c + 1]))}

\* The table is not in the table set of the mask of the filter.
NotInSet(w, filter, table) ==
    \/ table = NULL
    \/ ecs_sparse_get_sparse(find_table_set(w, filter.mask), table).table = NULL

\* With returned true at the first column of later, false when later is
\* empty.
WithAdvances(k, op, later) ==
    /\ last'.result = (later /= {})
    /\ last'.result =>
          it'.columns[k + 1][op.column + 1] =
              CHOOSE c \in later : \A d \in later : c <= d

\* The evaluation of the With at index k in this step.
WithStep(w, k, op, filter, table) ==
    IF ~RedoNow
    THEN (NotInSet(w, filter, table)
             /\ ~(op.param.transitive /\ ~filter.obj_wildcard)) =>
            (Returned /\ ~last'.result)
    ELSE /\ Returned
         /\ IF ~filter.wildcard THEN ~last'.result
            ELSE WithAdvances(k, op,
                    {c \in FilterColumns(w.tables[table].type, filter) :
                        c > it.columns[k + 1][op.column + 1]})

\* C26: on its first visit With returns false when the table of its input
\* is not in the table set of its filter, unless the predicate is
\* transitive and the object is not a wildcard; on a redo it returns false
\* when the filter has no wildcard, and otherwise returns true at the next
\* column of the type of the same table that matches after the one of its
\* last match, false when there is none.
C26_WithVisitAndRedo ==
    [][Called("With") =>
          WithStep(WorldList[world], it.op, CurOp,
              pair_to_filter(it, it.op, CurOp.param),
              WithInput(compiled.rule, WorldList[world], CurOp,
                        it.registers[it.op + 1]))]_vars

\* C26 witness: a With with a wildcard in its filter was evaluated again
\* with redo = true after a result was yielded, and matched a later column
\* of the type of the same table.
C26_Witness ==
    /\ pc = "running"
    /\ last.kind = "With"
    /\ last.result
    /\ ~last.prev_result
    /\ last.prev_cur > last.cur
    /\ nyield > 0
    /\ compiled.rule.operations[last.cur + 1].param.reg_mask /= {}
    /\ it.columns[last.cur + 1][compiled.rule.operations[last.cur + 1].column + 1] > 0

\* The results of a Select: for every non-empty table of the set, in the
\* order of the set, the columns of its type that the filter matches when
\* it has a wildcard, the column of the table record when it has none.
SelectPairs(w, set, filter) ==
    UNION {{<<i, c>> :
                c \in IF filter.wildcard
                      THEN FilterColumns(w.tables[set[i + 1].table].type,
                                         filter)
                      ELSE {set[i + 1].column}} :
              i \in {j \in 0..(Len(set) - 1) :
                        ecs_table_count(w, set[j + 1].table) > 0}}

\* The Select at index k, evaluated in this step: the first visit yields
\* the first result, a redo the one after the result it yielded last.
SelectEnumerates(w, k, op, filter, set) ==
    LET from == IF RedoNow
                THEN <<it.op_ctx[k + 1].table_index,
                       it.columns[k + 1][op.column + 1]>>
                ELSE <<-1, -1>>
    IN /\ Returned
       /\ SelectAdvances(w, k, op, set,
             {p \in SelectPairs(w, set, filter) : PairBefore(from, p)})

SelectInOrder(w, k, op, filter) ==
    SelectEnumerates(w, k, op, filter, find_table_set(w, filter.mask))

\* C27: Select yields its results in the order of the table set and,
\* inside a table, in ascending column order: a redo with a wildcard in
\* the filter yields the next matching column of the current table before
\* the next table, a redo without one the next table, and false once the
\* set is exhausted; a table that Select has moved past is not yielded
\* again.
C27_SelectInOrder ==
    [][Called("Select") =>
          SelectInOrder(WorldList[world], it.op, CurOp,
                        pair_to_filter(it, it.op, CurOp.param))]_vars

\* C27 witness: a Select whose object is a variable has yielded every
\* matching column of a table and then, on a redo, a later table of the set.
C27_Witness ==
    /\ pc = "running"
    /\ last.kind = "Select"
    /\ last.result
    /\ ~last.prev_result
    /\ last.prev_cur > last.cur
    /\ compiled.rule.operations[last.cur + 1].param.reg_mask = {RULE_PAIR_OBJECT}
    /\ it.op_ctx[last.cur + 1].table_index > 0
    /\ nyield > 1

\* The register holds no table, or a table with rows.
HasRows(w, reg) == reg[1] = "t" => ecs_table_count(w, reg[2]) /= 0

\* Every Select and Dfs has, in its own frame and in the frames copied from
\* it, a table with rows in its output register, if any.
OutputsHaveRows(i, rule, w) ==
    \A k \in 1..rule.operation_count :
        rule.operations[k].kind \in {"Select", "Dfs"} =>
            \A f \in k..rule.operation_count :
                HasRows(w, i.registers[f][rule.operations[k].r_out + 1])

\* C28: Select and Dfs never bind their output register to a table with
\* zero rows; so the table that Each is about to read has count /= 0, and
\* the count that set_iter_table publishes for a yielded result with a
\* table is not 0.
C28_NoEmptyTable ==
    /\ AboutToEvaluate =>
          /\ OutputsHaveRows(it, compiled.rule, WorldList[world])
          /\ CurOp.kind = "Each" =>
                HasRows(WorldList[world], it.registers[it.op + 1][CurOp.r_in + 1])
    /\ (JustYielded /\ HasThis(compiled.rule)) => it.count /= 0

\* C28 witness: a Select whose table set holds a table without rows has
\* gone through the whole set, and results with a table were yielded.
C28_Witness ==
    /\ pc = "running"
    /\ last.kind = "Select"
    /\ ~last.result
    /\ nyield > 1
    /\ HasThis(compiled.rule)
    /\ \E i \in 1..Len(it.op_ctx[last.cur + 1].table_set) :
          /\ ecs_table_count(WorldList[world],
                             it.op_ctx[last.cur + 1].table_set[i].table) = 0
          /\ it.op_ctx[last.cur + 1].table_index >= i

\* C29: the assertions of the transitive probe of With hold whenever With
\* is about to be evaluated: the set of all tables for the predicate is
\* found, and the start column taken from the table's record in it, minus
\* one, is not -1.
C29_ProbeAssertionsHold ==
    (AboutToEvaluate /\ CurOp.kind = "With") =>
        ~eval_with(it, compiled.rule, WorldList[world], CurOp, it.op,
                   RedoNow).asserted

\* No transitive predicate of the world has a cycle.
NoCycle(w) == \A p \in w.transitive : ~HasCycle(w, p)

\* it->op becomes -1 in this step.
OpBecomesEnd == it.op /= -1 /\ it'.op = -1

\* C30: on a world whose transitive relations have no cycle, every
\* iteration of the loop of ecs_rule_next comes back from the operation it
\* evaluates, so that the call returns and the calls end with false; and
\* it->op becomes -1 only in an iteration that evaluates Input with
\* redo = true.
C30_Terminates ==
    [][/\ (AboutToEvaluate /\ frees' = frees /\ NoCycle(WorldList[world]))
              => Returned
       /\ OpBecomesEnd => (AboutToEvaluate /\ CurOp.kind = "Input" /\ RedoNow)]_vars

\* An iteration of the loop of ecs_rule_next can be taken.
StepEnabled == pc \in {"idle", "running"} /\ it.nulled = {} /\ it.op /= -1

\* The loop of ecs_rule_next goes on until it returns, and the application
\* creates the rule and the iterator and calls ecs_rule_next after every
\* result unless it frees the iterator: weak fairness of the steps other
\* than IterFree, with their enabling condition written out.
SpecFair ==
    /\ Spec
    /\ \/ []<>(pc \notin {"new", "compiled"} /\ ~StepEnabled)
       \/ []<><<frees' = frees>>_vars

\* The iteration is over: ecs_rule_next returned false, or the application
\* freed the iterator after a result, or there is no rule to iterate.
IterationOver == pc \in {"done", "closed", "error"}

\* On a world without a cycle a call runs into a failed assertion or into
\* undefined behaviour, or else it returns and the iteration comes to its
\* end.
EndsUnlessStopped ==
    /\ (pc = "running" /\ NoCycle(WorldList[world]))
          ~> (pc \in {"idle", "done", "aborted", "undefined"})
    /\ <>(NoCycle(WorldList[world])
             => (IterationOver \/ pc \in {"aborted", "undefined"}))

\* The Table-kind variable of the compiled rule that has the name given.
SubjectNamed(rule, name) ==
    CHOOSE v \in Range(rule.variables) :
        v.kind = EcsRuleVarKindTable /\ v.name = name

\* The subject variables of the compiled rule.
SubjectVariables(rule) ==
    {v \in Range(rule.variables) : v.kind = EcsRuleVarKindTable}

\* The root has depth 0 and no subject variable has a smaller depth than
\* the root.
DepthsFromRoot(rule, root) ==
    /\ SubjectNamed(rule, root).depth = 0
    /\ \A v \in SubjectVariables(rule) :
          v.depth >= SubjectNamed(rule, root).depth

\* C31: in a rule that compiles and has a subject variable, the elected
\* root ends with depth 0 and no subject variable ends with a depth smaller
\* than the root's.
C31_DepthsFromRoot ==
    (compiled.status = "rule" /\ SubjectVariables(compiled.rule) /= {}) =>
        DepthsFromRoot(compiled.rule,
            elected_root(find_roots(ScanInit(emit_input(NewRule(world, sig))))))

\* The operation at the 0-based index k of a rule.
OpAt(rule, k) == rule.operations[k + 1]

\* The 0-based indexes of the operations after Input.
LaterOps(rule) == 1..(rule.operation_count - 1)

\* C32 as stated: every operation k > 0, the final Yield included, has
\* on_fail < k and on_ok in {k + 1, ..., operation_count} or equal to -1.
C32_JumpsAsStated ==
    compiled.status = "rule" =>
        \A k \in LaterOps(compiled.rule) :
            /\ OpAt(compiled.rule, k).on_fail < k
            /\ \/ OpAt(compiled.rule, k).on_ok
                    \in (k + 1)..compiled.rule.operation_count
               \/ OpAt(compiled.rule, k).on_ok = -1

\* C32 amended: every operation k > 0 has on_fail = k - 1; every one but
\* the final Yield has on_ok = k + 1, and the final Yield has on_ok = 0, the
\* value create_operation left.
C32_Jumps ==
    compiled.status = "rule" =>
        \A k \in LaterOps(compiled.rule) :
            /\ OpAt(compiled.rule, k).on_fail = k - 1
            /\ OpAt(compiled.rule, k).on_ok =
                  IF k = compiled.rule.operation_count - 1 THEN 0 ELSE k + 1

\* C32 witness: a compiled rule with three operations between Input and
\* Yield.
C32_Witness ==
    /\ compiled.status = "rule"
    /\ compiled.rule.operation_count = 5
    /\ OpAt(compiled.rule, 4).kind = "Yield"
    /\ OpAt(compiled.rule, 3).on_ok = 4

\* C33: every compiled rule has operations[0] of kind Input with on_ok = 1
\* and on_fail = -1, and its last operation is a Yield whose on_fail is
\* operation_count - 2, the operation before it.
C33_InputFirstYieldLast ==
    compiled.status = "rule" =>
        /\ compiled.rule.operation_count = Len(compiled.rule.operations)
        /\ compiled.rule.operation_count >= 2
        /\ OpAt(compiled.rule, 0).kind = "Input"
        /\ OpAt(compiled.rule, 0).on_ok = 1
        /\ OpAt(compiled.rule, 0).on_fail = -1
        /\ OpAt(compiled.rule, compiled.rule.operation_count - 1).kind = "Yield"
        /\ OpAt(compiled.rule, compiled.rule.operation_count - 1).on_fail
              = compiled.rule.operation_count - 2

\* C33 witness: the iteration of a compiled rule went from the Yield back
\* to the operation before it and on to Input, which ended it.
C33_Witness ==
    /\ compiled.status = "rule"
    /\ pc = "done"
    /\ nyield > 0
    /\ last.kind = "Input"
    /\ compiled.rule.operation_count > 2

\* The Entity-kind variables of a rule.
EntityVariables(rule) ==
    {v \in Range(rule.variables) : v.kind = EcsRuleVarKindEntity}

\* Some operation has has_out = true and the variable's id as r_out.
IsOutput(rule, v) ==
    \E k \in 1..rule.operation_count :
        rule.operations[k].has_out /\ rule.operations[k].r_out = v.id

\* Some Each reads the Table-kind variable of the same name and writes the
\* variable.
WrittenByEach(rule, v) ==
    \E k \in 1..rule.operation_count :
        /\ rule.operations[k].kind = "Each"
        /\ rule.operations[k].has_out
        /\ rule.operations[k].r_out = v.id
        /\ rule.operations[k].has_in
        /\ find_variable(rule, EcsRuleVarKindTable, v.name) /= -1
        /\ rule.operations[k].r_in
              = VarAt(rule, find_variable(rule, EcsRuleVarKindTable, v.name)).id

\* The variable is the predicate or the object of the pair of an operation
\* with a filter, which writes it when it reifies its match.
WrittenByPair(rule, v) ==
    \E k \in 1..rule.operation_count :
        /\ rule.operations[k].kind \in {"Select", "Dfs", "With"}
        /\ \/ /\ RULE_PAIR_PREDICATE \in rule.operations[k].param.reg_mask
              /\ rule.operations[k].param.pred = v.id
           \/ /\ RULE_PAIR_OBJECT \in rule.operations[k].param.reg_mask
              /\ rule.operations[k].param.obj = v.id

\* C34 as stated: each Entity-kind variable is the r_out of an operation
\* with has_out = true, or is written by an Each from its Table-kind
\* companion.
C34_OutputOrEach ==
    compiled.status = "rule" =>
        \A v \in EntityVariables(compiled.rule) :
            IsOutput(compiled.rule, v) \/ WrittenByEach(compiled.rule, v)

\* C34 amended: each Entity-kind variable is written by an Each from its
\* Table-kind companion, or is the predicate or object variable of the pair
\* of a Select, Dfs or With.
C34_EachOrPair ==
    compiled.status = "rule" =>
        \A v \in EntityVariables(compiled.rule) :
            WrittenByEach(compiled.rule, v) \/ WrittenByPair(compiled.rule, v)

\* C34 witness: a compiled rule with a variable written only as part of a
\* pair and a variable written only by an Each.
C34_Witness ==
    /\ compiled.status = "rule"
    /\ \E v \in EntityVariables(compiled.rule) :
          WrittenByPair(compiled.rule, v) /\ ~WrittenByEach(compiled.rule, v)
    /\ \E v \in EntityVariables(compiled.rule) :
          WrittenByEach(compiled.rule, v) /\ ~WrittenByPair(compiled.rule, v)

\* The variable ids in the pair of the operation at position k.
PairVariables(rule, k) ==
    IF rule.operations[k].kind \notin {"Select", "Dfs", "With"} THEN {}
    ELSE (IF RULE_PAIR_PREDICATE \in rule.operations[k].param.reg_mask
          THEN {rule.operations[k].param.pred} ELSE {})
         \cup
         (IF RULE_PAIR_OBJECT \in rule.operations[k].param.reg_mask
          THEN {rule.operations[k].param.obj} ELSE {})

\* The variable ids written by the operations before position k: the
\* outputs of Select, Dfs and Each and the variables of the pairs.
WrittenBefore(rule, k) ==
    UNION {PairVariables(rule, j)
           \cup (IF rule.operations[j].has_out
                 THEN {rule.operations[j].r_out} ELSE {}) : j \in 1..(k - 1)}

\* The variable that the operation at position k reads as its input.
InputVariable(rule, k) ==
    IF rule.operations[k].has_in /\ rule.operations[k].r_in /= UINT8_MAX
    THEN {rule.operations[k].r_in} ELSE {}

\* C35 as stated: no operation references, as r_in or as predicate or
\* object variable of its pair, a variable id that no earlier operation has
\* written; r_in = MAX is no variable id.
C35_ReferencesWritten ==
    compiled.status = "rule" =>
        \A k \in 1..compiled.rule.operation_count :
            InputVariable(compiled.rule, k) \cup PairVariables(compiled.rule, k)
                \subseteq WrittenBefore(compiled.rule, k)

\* C35 amended: the r_in of every operation, if it is not MAX, is a
\* variable id that an earlier operation writes, as its output or as a
\* variable of its pair.
C35_InputsWritten ==
    compiled.status = "rule" =>
        \A k \in 1..compiled.rule.operation_count :
            InputVariable(compiled.rule, k)
                \subseteq WrittenBefore(compiled.rule, k)

\* C35 witness: a compiled rule with a With whose input is a variable of
\* the pair of an earlier operation, which that operation is the first to
\* reference.
C35_Witness ==
    /\ compiled.status = "rule"
    /\ \E k \in 1..compiled.rule.operation_count :
          /\ compiled.rule.operations[k].kind = "With"
          /\ InputVariable(compiled.rule, k) /= {}
          /\ \E j \in 1..(k - 1) :
                /\ InputVariable(compiled.rule, k)
                      \subseteq PairVariables(compiled.rule, j)
                /\ InputVariable(compiled.rule, k)
                      \cap WrittenBefore(compiled.rule, j) = {}

\* The 0-based indexes of the terms whose subject is the variable named.
SubjectTerms(rule, name) ==
    {c \in 0..(rule.column_count - 1) :
        /\ IsVarId(rule.sig[c + 1].argv[1])
        /\ rule.sig[c + 1].argv[1].name = name}

\* The positions of the operations emitted for term c: the Each operations
\* of write_variable and the Select, Dfs or With of the term.
TermGroup(rule, c) ==
    {k \in 2..rule.operation_count :
        /\ rule.operations[k].kind \in {"Each", "Select", "Dfs", "With"}
        /\ rule.operations[k].column = c}

Least(S) == CHOOSE x \in S : \A y \in S : x <= y

\* The ids of the incarnations of the variable named; -1 if there is none.
IdOf(rule, kind, name) ==
    IF find_variable(rule, kind, name) = -1 THEN -1
    ELSE VarAt(rule, find_variable(rule, kind, name)).id

\* What the emitter emits for a term whose subject is v, given the set of
\* variable ids written: With on the Entity incarnation if it is written,
\* else With on the Table incarnation if it is written, else a Select, or a
\* Dfs if the pair is transitive, that writes the Table incarnation, and
\* this only for the first term of v.
EmittedAsStated(rule, v, c, op, written) ==
    IF IdOf(rule, EcsRuleVarKindEntity, v.name) \in written
    THEN /\ op.kind = "With"
         /\ op.has_in
         /\ op.r_in = IdOf(rule, EcsRuleVarKindEntity, v.name)
    ELSE IF v.id \in written
    THEN op.kind = "With" /\ op.has_in /\ op.r_in = v.id
    ELSE /\ op.kind = (IF op.param.transitive THEN "Dfs" ELSE "Select")
         /\ op.has_out
         /\ op.r_out = v.id
         /\ c = Least(SubjectTerms(rule, v.name))

\* At most one Select or Dfs writes the Table incarnation of v.
OneSelect(rule, v) ==
    Cardinality({k \in 1..rule.operation_count :
                    /\ rule.operations[k].kind \in {"Select", "Dfs"}
                    /\ rule.operations[k].r_out = v.id}) <= 1

\* C36 as stated, "written" being what the operations before the With,
\* Select or Dfs of the term write.
C36_SubjectTermsAsStated ==
    compiled.status = "rule" =>
        \A v \in SubjectVariables(compiled.rule) :
            /\ OneSelect(compiled.rule, v)
            /\ \A c \in SubjectTerms(compiled.rule, v.name) :
                  /\ Cardinality(TermOps(compiled.rule, c)) = 1
                  /\ \A k \in TermOps(compiled.rule, c) :
                        EmittedAsStated(compiled.rule, v, c,
                            compiled.rule.operations[k],
                            WrittenBefore(compiled.rule, k))

\* C36 amended: "written" is what the operations emitted for the terms
\* handled earlier write; an Each that write_variable emits for the
\* predicate or object of the term itself does not count.
C36_SubjectTerms ==
    compiled.status = "rule" =>
        \A v \in SubjectVariables(compiled.rule) :
            /\ OneSelect(compiled.rule, v)
            /\ \A c \in SubjectTerms(compiled.rule, v.name) :
                  /\ Cardinality(TermOps(compiled.rule, c)) = 1
                  /\ \A k \in TermOps(compiled.rule, c) :
                        EmittedAsStated(compiled.rule, v, c,
                            compiled.rule.operations[k],
                            WrittenBefore(compiled.rule,
                                          Least(TermGroup(compiled.rule, c))))

\* C36 witness: a subject whose first term emitted a Select and whose
\* second term emitted an Each that writes its Entity incarnation, and then
\* a With that reads the Table incarnation.
C36_Witness ==
    /\ compiled.status = "rule"
    /\ \E v \in SubjectVariables(compiled.rule) :
          \E c \in SubjectTerms(compiled.rule, v.name) :
              \E k \in TermOps(compiled.rule, c) :
                  /\ compiled.rule.operations[k].kind = "With"
                  /\ compiled.rule.operations[k].r_in = v.id
                  /\ compiled.rule.operations[k - 1].kind = "Each"
                  /\ compiled.rule.operations[k - 1].r_out
                        = IdOf(compiled.rule, EcsRuleVarKindEntity, v.name)
                  /\ k - 1 \in TermGroup(compiled.rule, c)
                  /\ OneSelect(compiled.rule, v)

\* The variables as scan_variables hands them to qsort: every variable
\* created, the depths assigned, the ids in order of creation.
BeforeSort(st) ==
    LET root_var == elect_root(ThisVarInit, st.max_occur_var)
        Depths(r2) ==
            LET d == get_variable_depth(r2, root_var, root_var, 0)
            IN [d.rule EXCEPT !.variables[root_var + 1].depth = d.ret].variables
    IN Depths(ensure_all_variables(
                [st.rule EXCEPT !.subject_variable_count =
                                    st.rule.variable_count]))

\* The variable of the same kind and name in an array.
SameVariable(array, v) ==
    array[CHOOSE i \in 1..Len(array) :
            array[i].kind = v.kind /\ array[i].name = v.name]

\* a comes strictly before b by (kind ascending, depth ascending, occurs
\* descending, id descending).
StrictlyBefore(a, b) ==
    \/ a.kind < b.kind
    \/ a.kind = b.kind /\ a.depth < b.depth
    \/ a.kind = b.kind /\ a.depth = b.depth /\ a.occurs > b.occurs
    \/ a.kind = b.kind /\ a.depth = b.depth /\ a.occurs = b.occurs /\ a.id > b.id

\* The array sorted is in strict order, each variable taken with the id it
\* had when it was sorted.
SortedStrictly(sorted, unsorted) ==
    \A i \in 1..Len(sorted) : \A j \in (i + 1)..Len(sorted) :
        StrictlyBefore(SameVariable(unsorted, sorted[i]),
                       SameVariable(unsorted, sorted[j]))

\* C37: after the sort in scan_variables the variable array is strictly
\* ordered by (kind ascending, depth ascending, occurs descending, id
\* descending), also where variables have equal kind, depth and occurs.
C37_SortedStrictly ==
    (pc = "compiled" /\ SubjectVariables(compiled.rule) /= {}) =>
        SortedStrictly(compiled.rule.variables,
            BeforeSort(find_roots(ScanInit(emit_input(NewRule(world, sig))))))

(***************************************************************************)
(* find_next_match on its own: the arguments are drawn from the types of   *)
(* up to MaxTypeLen ids, the columns up to one past the end of such a      *)
(* type, and the filters that pair_to_filter builds from a pair and a      *)
(* frame of two registers.  The variable it holds the arguments, results   *)
(* the value returned.                                                     *)
(***************************************************************************)
MatchIds ==
    { Plain(Name.Name),
      ecs_trait(Name.Alice, Name.Knows),
      ecs_trait(Name.Bob, Name.Knows),
      ecs_trait(Name.Apple, Name.Eats),
      ecs_trait(Name.Alice, Name.Alice) }

MatchTypes ==
    {SortIds(S) : S \in {T \in SUBSET MatchIds : Cardinality(T) <= MaxTypeLen}}

\* A pair whose predicate and object are a literal, or a variable (0 or 1)
\* when var is TRUE.
MatchPair(pred, pred_var, obj, obj_var) ==
    [pred |-> pred, obj |-> obj, transitive |-> FALSE,
     reg_mask |-> (IF pred_var THEN {RULE_PAIR_PREDICATE} ELSE {})
                  \cup (IF obj_var THEN {RULE_PAIR_OBJECT} ELSE {})]

\* The predicate: the variable 0 or 1, or a literal.
MatchPreds ==
    {[id |-> 0, var |-> TRUE], [id |-> 1, var |-> TRUE],
     [id |-> Name.Knows, var |-> FALSE], [id |-> Name.Alice, var |-> FALSE]}

\* The object: the variable 0 or 1, none, or a literal.
MatchObjs ==
    {[id |-> 0, var |-> TRUE], [id |-> 1, var |-> TRUE],
     [id |-> 0, var |-> FALSE], [id |-> Name.Alice, var |-> FALSE],
     [id |-> Name.Bob, var |-> FALSE]}

MatchPairSet ==
    {MatchPair(p.id, p.var, o.id, o.var) : p \in MatchPreds, o \in MatchObjs}

MatchRegisters ==
    {<<RegEntity(a), RegEntity(b)>> : a, b \in {EcsWildcard, Name.Alice}}

MatchFilters ==
    {pair_to_filter([registers |-> <<regs>>], 1, pair) :
        regs \in MatchRegisters, pair \in MatchPairSet}

MatchInit ==
    /\ it \in [type : MatchTypes, column : 0..(MaxTypeLen + 1),
               filter : MatchFilters]
    /\ pc = "new"
    /\ results = <<>>
    /\ world = 1
    /\ sig = <<>>
    /\ compiled = [status |-> "none", rule |-> NewRule(1, <<>>)]
    /\ redo = FALSE
    /\ build = "unknown"
    /\ yielded = {}
    /\ nyield = 0
    /\ last = NoStep
    /\ frees = 0
    /\ other = NoOther
    /\ seen = <<>>

MatchCall ==
    /\ pc = "new"
    /\ results' = <<find_next_match(it.type, it.column, it.filter)>>
    /\ pc' = "done"
    /\ UNCHANGED <<world, sig, compiled, it, redo, build, yielded, nyield,
                   last, frees, other, seen>>

MatchNext == MatchCall

SpecMatch == MatchInit /\ [][MatchNext]_vars

\* The element of the type at the 0-based index i passes the filter.
Passes(type, i, filter) ==
    /\ IdAnd(type[i + 1], filter.expr_mask) = filter.expr_match
    /\ filter.same_var =>
          ecs_entity_t_lo(type[i + 1]) = ecs_entity_t_hi(type[i + 1])

\* What the claim says of the value r returned for the arguments.
MatchReturned(type, start, filter, r) ==
    /\ \/ r = -1
       \/ /\ r >= start
          /\ r < Len(type)
          /\ Passes(type, r, filter)
    /\ (~filter.pred_wildcard /\ start > 0) =>
          r = IF start < Len(type) /\ Passes(type, start, filter)
              THEN start ELSE -1

\* C38: find_next_match(type, start, filter) returns -1 or an index
\* i >= start within the type such that (type[i] & expr_mask) = expr_match
\* and, when same_var is set, the low and high halves of type[i] are equal;
\* when pred_wildcard is false and start > 0 it examines only the element
\* at start.
C38_FindNextMatch ==
    pc = "done" => MatchReturned(it.type, it.column, it.filter, results[1])

\* C38 witness: with same_var set, an element whose halves differ was
\* passed over and a later one with equal halves returned.
C38_Witness ==
    /\ pc = "done"
    /\ it.filter.same_var
    /\ results[1] > it.column
    /\ IdAnd(it.type[it.column + 1], it.filter.expr_mask)
          = it.filter.expr_match

====
